---------------------------- MODULE Spec2Model ----------------------------
(***************************************************************************)
(* Session and directive resolution engine of the chat front-end:         *)
(* getReplyFromConfig (auto-reply), agentCommand (CLI) and                 *)
(* runCronIsolatedAgentTurn (cron) sharing one persisted session store.    *)
(*                                                                         *)
(* Text is a sequence of symbols.  A symbol is a one-character string, or  *)
(* a longer string standing for one fixed text of the program (a prompt,   *)
(* a hint) that the program only ever concatenates and compares as a       *)
(* whole; such a symbol is neither white space nor a word character.       *)
(***************************************************************************)
EXTENDS Integers, Sequences, FiniteSets, TLC

-----------------------------------------------------------------------------
(* Characters and JavaScript string primitives.                            *)

Lowers == <<"a","b","c","d","e","f","g","h","i","j","k","l","m",
            "n","o","p","q","r","s","t","u","v","w","x","y","z">>
Uppers == <<"A","B","C","D","E","F","G","H","I","J","K","L","M",
            "N","O","P","Q","R","S","T","U","V","W","X","Y","Z">>
LowerSet == {Lowers[i] : i \in DOMAIN Lowers}
UpperSet == {Uppers[i] : i \in DOMAIN Uppers}
DigitSet == {"0","1","2","3","4","5","6","7","8","9"}

IsSpace(c)  == c \in {" ", "\t", "\n"}
IsLetter(c) == c \in LowerSet \cup UpperSet
IsDigit(c)  == c \in DigitSet
\* \w of a JavaScript regular expression
IsWordChar(c) == IsLetter(c) \/ IsDigit(c) \/ c = "_"

LowerChar(c) ==
  IF c \in UpperSet THEN Lowers[CHOOSE i \in DOMAIN Uppers : Uppers[i] = c] ELSE c

\* String.prototype.toLowerCase
ToLower(s) == [i \in DOMAIN s |-> LowerChar(s[i])]

\* s.slice(i) with a 0-based index i
SliceFrom(s, i) == SubSeq(s, i + 1, Len(s))

\* The text at positions i..j-1 (1-based, j exclusive)
Span(s, i, j) == SubSeq(s, i, j - 1)

RECURSIVE SkipSpaces(_, _)
\* First position >= i that is not white space (Len(s)+1 when there is none)
SkipSpaces(s, i) ==
  IF i <= Len(s) /\ IsSpace(s[i]) THEN SkipSpaces(s, i + 1) ELSE i

RECURSIVE TrimEnd(_)
TrimEnd(s) ==
  IF s # <<>> /\ IsSpace(s[Len(s)]) THEN TrimEnd(SubSeq(s, 1, Len(s) - 1)) ELSE s

\* String.prototype.trimStart / trim
TrimStart(s) == SubSeq(s, SkipSpaces(s, 1), Len(s))
Trim(s) == TrimEnd(TrimStart(s))

RECURSIVE CollapseFrom(_, _)
CollapseFrom(s, i) ==
  IF i > Len(s) THEN <<>>
  ELSE IF IsSpace(s[i]) THEN <<" ">> \o CollapseFrom(s, SkipSpaces(s, i))
  ELSE <<s[i]>> \o CollapseFrom(s, i + 1)

\* s.replace(/\s+/g, " ")
CollapseSpaces(s) == CollapseFrom(s, 1)

\* s.startsWith(p, i-1): p occurs in s at position i (1-based)
OccursAt(s, p, i) ==
  /\ i >= 1
  /\ i + Len(p) - 1 <= Len(s)
  /\ \A k \in 1..Len(p) : s[i + k - 1] = p[k]

\* The same, ignoring case (the "i" flag)
OccursAtCI(s, p, i) ==
  /\ i >= 1
  /\ i + Len(p) - 1 <= Len(s)
  /\ \A k \in 1..Len(p) : LowerChar(s[i + k - 1]) = LowerChar(p[k])

StartsWith(s, p) == OccursAt(s, p, 1)

\* s.indexOf(p) + 1, 0 when p does not occur in s
IndexOf(s, p) ==
  IF \E i \in 1..(Len(s) + 1) : OccursAt(s, p, i)
  THEN CHOOSE i \in 1..(Len(s) + 1) :
         OccursAt(s, p, i) /\ \A j \in 1..(i - 1) : ~OccursAt(s, p, j)
  ELSE 0

Includes(s, p) == IndexOf(s, p) # 0

\* s.replace(p, "") with a string pattern: the first occurrence only
RemoveFirst(s, p) ==
  LET i == IndexOf(s, p)
  IN IF i = 0 THEN s ELSE SubSeq(s, 1, i - 1) \o SubSeq(s, i + Len(p), Len(s))

RECURSIVE ReplaceAllCIFrom(_, _, _)
ReplaceAllCIFrom(s, p, i) ==
  IF i > Len(s) THEN <<>>
  ELSE IF p # <<>> /\ OccursAtCI(s, p, i)
       THEN <<" ">> \o ReplaceAllCIFrom(s, p, i + Len(p))
       ELSE <<s[i]>> \o ReplaceAllCIFrom(s, p, i + 1)

\* s.replace(new RegExp(escaped p, "gi"), " ") for a literal pattern p
ReplaceAllCI(s, p) == ReplaceAllCIFrom(s, p, 1)

RECURSIVE JoinWith(_, _)
\* parts.join(sep)
JoinWith(parts, sep) ==
  IF parts = <<>> THEN <<>>
  ELSE IF Len(parts) = 1 THEN parts[1]
  ELSE parts[1] \o sep \o JoinWith(Tail(parts), sep)

-----------------------------------------------------------------------------
(* Inline directives.                                                      *)

\* An absent optional value (undefined): of an enumeration, and of a text
None == "none"
NoText == <<"undefined">>

ThinkLevels   == {"off", "minimal", "low", "medium", "high"}
VerboseLevels == {"on", "off"}

W_off     == <<"o","f","f">>
W_minimal == <<"m","i","n","i","m","a","l">>
W_low     == <<"l","o","w">>
W_medium  == <<"m","e","d","i","u","m">>
W_high    == <<"h","i","g","h">>
W_on      == <<"o","n">>

\* normalizeThinkLevel: the level a word names, None for any other word
normalizeThinkLevel(raw) ==
  IF raw = NoText THEN None
  ELSE LET key == ToLower(raw)
       IN CASE key = W_off     -> "off"
            [] key = W_minimal -> "minimal"
            [] key = W_low     -> "low"
            [] key = W_medium  -> "medium"
            [] key = W_high    -> "high"
            [] OTHER           -> None

\* normalizeVerboseLevel
normalizeVerboseLevel(raw) ==
  IF raw = NoText THEN None
  ELSE LET key == ToLower(raw)
       IN CASE key = W_on  -> "on"
            [] key = W_off -> "off"
            [] OTHER       -> None

\* [a-zA-Z-]
IsLevelChar(c) == IsLetter(c) \/ c = "-"

RECURSIVE RunEnd(_, _)
\* End (exclusive) of the longest run of [a-zA-Z-] starting at position i
RunEnd(s, i) ==
  IF i <= Len(s) /\ IsLevelChar(s[i]) THEN RunEnd(s, i + 1) ELSE i

\* \b between positions k-1 and k
WordBoundary(s, k) ==
  LET before == k > 1 /\ k - 1 <= Len(s) /\ IsWordChar(s[k - 1])
      after  == k >= 1 /\ k <= Len(s) /\ IsWordChar(s[k])
  IN before # after

\* \s*:?\s*([a-zA-Z-]+)\b tried at position p: the capture as <<from, to>> (to
\* exclusive), <<>> when it does not match.  The run is greedy and gives characters
\* back until \b holds.
LevelTail(s, p) ==
  LET SkipColon(p1) == IF p1 <= Len(s) /\ s[p1] = ":" THEN p1 + 1 ELSE p1
      Capture(p3) ==
        LET ends == {k \in (p3 + 1)..RunEnd(s, p3) : WordBoundary(s, k)}
        IN IF ends = {} THEN <<>>
           ELSE <<p3, CHOOSE k \in ends : \A j \in ends : j <= k>>
  IN Capture(SkipSpaces(s, SkipColon(SkipSpaces(s, p))))

\* (?=$|\s|:) at position p
KeywordEnd(s, p) == p > Len(s) \/ IsSpace(s[p]) \/ s[p] = ":"

KW_thinking == <<"t","h","i","n","k","i","n","g">>
KW_think    == <<"t","h","i","n","k">>
KW_t        == <<"t">>
KW_verbose  == <<"v","e","r","b","o","s","e">>
KW_v        == <<"v">>

\* The alternatives of a keyword group, in the order the expression lists them
ThinkKeywords   == <<KW_thinking, KW_think, KW_t>>
VerboseKeywords == <<KW_verbose, KW_v>>

\* The first of two attempts that matched (<<>>: no match)
FirstMatch(a, b) == IF a # <<>> THEN a ELSE b

\* \/(?:k1|k2|..)<lookahead>\s*:?\s*([a-zA-Z-]+)\b with the "/" at position q:
\* the first alternative whose continuation matches wins
RECURSIVE DirectiveFrom(_, _, _, _, _)
DirectiveFrom(s, q, kws, n, lookahead) ==
  IF n > Len(kws) THEN <<>>
  ELSE LET p == q + 1 + Len(kws[n])
       IN FirstMatch(IF OccursAtCI(s, kws[n], q + 1)
                        /\ (~lookahead \/ KeywordEnd(s, p))
                     THEN LevelTail(s, p) ELSE <<>>,
                     DirectiveFrom(s, q, kws, n + 1, lookahead))

\* The expression tried with (?:^|\s) at position i: ^ first (i = 1 only), then \s
DirectiveAt(s, i, kws, lookahead) ==
  LET slash == IF i = 1 /\ i <= Len(s) /\ s[i] = "/" THEN i
               ELSE IF i + 1 <= Len(s) /\ IsSpace(s[i]) /\ s[i + 1] = "/" THEN i + 1
               ELSE 0
  IN IF slash = 0 THEN <<>> ELSE DirectiveFrom(s, slash, kws, 1, lookahead)

\* body.match(re): the leftmost match as [from, to (exclusive), lfrom, lto],
\* <<>> when there is none
DirectiveMatch(s, kws, lookahead) ==
  LET At(i) == DirectiveAt(s, i, kws, lookahead)
      Found(i, t) == <<i, t[2], t[1], t[2]>>
      Leftmost(hits) ==
        IF hits = {} THEN <<>>
        ELSE LET i == CHOOSE k \in hits : \A j \in hits : k <= j
             IN Found(i, At(i))
  IN Leftmost({i \in 1..Len(s) : At(i) # <<>>})

\* What both extractors return: the body without the first occurrence of the matched
\* text, white space collapsed and trimmed
DirectiveResult(body, m) ==
  IF body = <<>> THEN [cleaned |-> <<>>, rawLevel |-> NoText, hasDirective |-> FALSE]
  ELSE IF m = <<>>
       THEN [cleaned |-> Trim(body), rawLevel |-> NoText, hasDirective |-> FALSE]
       ELSE [cleaned |-> Trim(CollapseSpaces(RemoveFirst(body, Span(body, m[1], m[2])))),
             rawLevel |-> Span(body, m[3], m[4]),
             hasDirective |-> TRUE]

\* /(?:^|\s)\/(?:thinking|think|t)\s*:?\s*([a-zA-Z-]+)\b/i
extractThinkDirective(body) ==
  LET Levelled(r) ==
        [cleaned |-> r.cleaned, thinkLevel |-> normalizeThinkLevel(r.rawLevel),
         rawLevel |-> r.rawLevel, hasDirective |-> r.hasDirective]
  IN Levelled(DirectiveResult(body, DirectiveMatch(body, ThinkKeywords, FALSE)))

\* /(?:^|\s)\/(?:verbose|v)(?=$|\s|:)\s*:?\s*([a-zA-Z-]+)\b/i
extractVerboseDirective(body) ==
  LET Levelled(r) ==
        [cleaned |-> r.cleaned, verboseLevel |-> normalizeVerboseLevel(r.rawLevel),
         rawLevel |-> r.rawLevel, hasDirective |-> r.hasDirective]
  IN Levelled(DirectiveResult(body, DirectiveMatch(body, VerboseKeywords, TRUE)))

-----------------------------------------------------------------------------
(* Structural wrappers, mentions, abort keywords.                          *)

\* "[Current message - respond to this]", one symbol
CurrentMessageMarker == <<"[Current message - respond to this]">>

RECURSIVE FirstIndexOfChar(_, _, _)
\* First position >= i holding c, 0 when there is none
FirstIndexOfChar(s, c, i) ==
  IF i > Len(s) THEN 0
  ELSE IF s[i] = c THEN i ELSE FirstIndexOfChar(s, c, i + 1)

RECURSIVE FirstClosing(_, _)
\* First position >= i holding "]" (the marker symbol ends with one), 0 when none
FirstClosing(s, i) ==
  IF i > Len(s) THEN 0
  ELSE IF s[i] = "]" \/ <<s[i]>> = CurrentMessageMarker THEN i
  ELSE FirstClosing(s, i + 1)

RECURSIVE StripBracketsFrom(_, _)
\* .replace(/\[[^\]]+\]\s*/g, "")
StripBracketsFrom(s, i) ==
  IF i > Len(s) THEN <<>>
  ELSE LET j == IF s[i] = "[" THEN FirstClosing(s, i + 1) ELSE 0
           closed == j # 0 /\ (j >= i + 2 \/ s[j] # "]")
       IN IF <<s[i]>> = CurrentMessageMarker
          THEN StripBracketsFrom(s, SkipSpaces(s, i + 1))
          ELSE IF closed THEN StripBracketsFrom(s, SkipSpaces(s, j + 1))
          ELSE <<s[i]>> \o StripBracketsFrom(s, i + 1)

\* [A-Za-z0-9+()\-_. ]
IsLabelChar(c) == IsLetter(c) \/ IsDigit(c) \/ c \in {"+", "(", ")", "-", "_", ".", " "}

\* ^[ \t]*[A-Za-z0-9+()\-_. ]+: tried at line start i: the position of the ":",
\* 0 when it does not match
LabelColon(s, i) ==
  LET j == FirstIndexOfChar(s, ":", i)
  IN IF j > i /\ \E k \in i..(j - 1) :
                   /\ \A a \in i..(k - 1) : s[a] \in {" ", "\t"}
                   /\ \A b \in k..(j - 1) : IsLabelChar(s[b])
     THEN j ELSE 0

RECURSIVE StripLabelsFrom(_, _)
\* .replace(/^[ \t]*[A-Za-z0-9+()\-_. ]+:\s*/gm, "")
StripLabelsFrom(s, i) ==
  IF i > Len(s) THEN <<>>
  ELSE LET j == IF i = 1 \/ s[i - 1] = "\n" THEN LabelColon(s, i) ELSE 0
       IN IF j # 0 THEN StripLabelsFrom(s, SkipSpaces(s, j + 1))
          ELSE <<s[i]>> \o StripLabelsFrom(s, i + 1)

stripStructuralPrefixes(text) ==
  LET at == IndexOf(text, CurrentMessageMarker)
      afterMarker == IF at # 0
                     THEN SliceFrom(text, (at - 1) + Len(CurrentMessageMarker))
                     ELSE text
  IN Trim(CollapseSpaces(StripLabelsFrom(StripBracketsFrom(afterMarker, 1), 1)))

W_whatsapp == <<"w","h","a","t","s","a","p","p",":">>

\* .replace(/^whatsapp:/, "")
StripWhatsappPrefix(s) == IF StartsWith(s, W_whatsapp) THEN SliceFrom(s, Len(W_whatsapp)) ELSE s

RECURSIVE MentionRunEnd(_, _)
MentionRunEnd(s, i) ==
  IF i <= Len(s) /\ (IsDigit(s[i]) \/ s[i] = "+") THEN MentionRunEnd(s, i + 1) ELSE i

RECURSIVE StripGenericMentionsFrom(_, _)
\* .replace(/@[0-9+]{5,}/g, " ")
StripGenericMentionsFrom(s, i) ==
  IF i > Len(s) THEN <<>>
  ELSE LET e == IF s[i] = "@" THEN MentionRunEnd(s, i + 1) ELSE i
       IN IF e - (i + 1) >= 5 THEN <<" ">> \o StripGenericMentionsFrom(s, e)
          ELSE <<s[i]>> \o StripGenericMentionsFrom(s, i + 1)

RECURSIVE ReplacePatterns(_, _)
\* The loop over routing.groupChat.mentionPatterns (literal patterns)
ReplacePatterns(text, patterns) ==
  IF patterns = <<>> THEN text
  ELSE ReplacePatterns(ReplaceAllCI(text, Head(patterns)), Tail(patterns))

stripMentions(text, ctxTo, mentionPatterns) ==
  LET r1 == ReplacePatterns(text, mentionPatterns)
      selfE164 == StripWhatsappPrefix(ctxTo)
      r2 == IF selfE164 # <<>>
            THEN ReplaceAllCI(ReplaceAllCI(r1, selfE164), <<"@">> \o selfE164)
            ELSE r1
  IN Trim(CollapseSpaces(StripGenericMentionsFrom(r2, 1)))

ABORT_TRIGGERS_SANS_STOP ==
  { <<"e","s","c">>, <<"a","b","o","r","t">>, <<"w","a","i","t">>, <<"e","x","i","t">> }

ABORT_TRIGGERS ==
  { <<"s","t","o","p">>, <<"e","s","c">>, <<"a","b","o","r","t">>,
    <<"w","a","i","t">>, <<"e","x","i","t">> }

isAbortTrigger(text) ==
  IF text = <<>> THEN FALSE ELSE ToLower(Trim(text)) \in ABORT_TRIGGERS

-----------------------------------------------------------------------------
(* Model references and the allow-list (agents/model-selection.ts).        *)

modelKey(provider, model) == provider \o <<"/">> \o model

\* null
NoRef == [provider |-> NoText, model |-> NoText]

parseModelRef(raw, defaultProvider) ==
  LET Pair(provider, model) ==
        IF provider = <<>> \/ model = <<>> THEN NoRef
        ELSE [provider |-> provider, model |-> model]
      Split(trimmed, slash) ==
        IF trimmed = <<>> THEN NoRef
        ELSE IF slash = 0 THEN [provider |-> defaultProvider, model |-> trimmed]
        ELSE Pair(Trim(SubSeq(trimmed, 1, slash - 1)), Trim(SliceFrom(trimmed, slash)))
      Parse(trimmed) == Split(trimmed, IndexOf(trimmed, <<"/">>))
  IN Parse(Trim(raw))

\* agents/defaults.js
DEFAULT_PROVIDER == <<"a","n","t","h","r","o","p","i","c">>
DEFAULT_MODEL    == <<"o","p","u","s">>

\* cfg.agent?.provider?.trim() || "" and the like: an unset field reads as ""
TrimOrEmpty(t) == IF t = NoText THEN <<>> ELSE Trim(t)

\* The configured pair with the provider always taken from agent.provider
resolveConfiguredModelRefByProvider(cfg, defaultProvider, defaultModel) ==
  LET Fallback(rawProvider) ==
        IF rawProvider # <<>> THEN rawProvider ELSE defaultProvider
      Resolve(rawModel, providerFallback) ==
        IF rawModel # <<>>
        THEN [provider |-> providerFallback,
              model |-> IF parseModelRef(rawModel, providerFallback) # NoRef
                        THEN parseModelRef(rawModel, providerFallback).model
                        ELSE rawModel]
        ELSE [provider |-> providerFallback, model |-> defaultModel]
  IN Resolve(TrimOrEmpty(cfg.agentModel), Fallback(TrimOrEmpty(cfg.agentProvider)))

resolveConfiguredModelRef(cfg, defaultProvider, defaultModel) ==
  LET Parsed(parsed, other) == IF parsed # NoRef THEN parsed ELSE other
      Resolve(rawModel, providerFallback) ==
        IF rawModel # <<>>
        THEN Parsed(parseModelRef(rawModel, providerFallback),
                    [provider |-> providerFallback, model |-> rawModel])
        ELSE [provider |-> providerFallback, model |-> defaultModel]
      Fallback(rawProvider) ==
        IF rawProvider # <<>> THEN rawProvider ELSE defaultProvider
  IN Resolve(TrimOrEmpty(cfg.agentModel), Fallback(TrimOrEmpty(cfg.agentProvider)))

\* A catalog entry is [provider, id]
CatalogKeys(catalog) == {modelKey(catalog[i].provider, catalog[i].id) : i \in DOMAIN catalog}

RECURSIVE AllowlistKeys(_, _, _)
\* The loop over rawAllowlist: the parsable entries that name a catalog entry
AllowlistKeys(rawAllowlist, catalogKeys, defaultProvider) ==
  IF rawAllowlist = <<>> THEN {}
  ELSE LET Add(parsed, rest) ==
             LET key == modelKey(parsed.provider, parsed.model)
             IN IF parsed # NoRef /\ key \in catalogKeys THEN {key} \cup rest ELSE rest
       IN Add(parseModelRef(Head(rawAllowlist), defaultProvider),
              AllowlistKeys(Tail(rawAllowlist), catalogKeys, defaultProvider))

buildAllowedModelSetClosed(cfg, catalog, defaultProvider) ==
  LET Narrow(allowedKeys) ==
        [ allowAny |-> Len(cfg.allowedModels) = 0,
          allowedCatalog |->
            SelectSeq(catalog, LAMBDA e : modelKey(e.provider, e.id) \in allowedKeys),
          allowedKeys |-> allowedKeys ]
  IN IF Len(cfg.allowedModels) = 0
     THEN [allowAny |-> TRUE, allowedCatalog |-> catalog,
           allowedKeys |-> CatalogKeys(catalog)]
     ELSE Narrow(AllowlistKeys(cfg.allowedModels, CatalogKeys(catalog), defaultProvider))

buildAllowedModelSet(cfg, catalog, defaultProvider) ==
  LET rawAllowlist == cfg.allowedModels
      allowAny == Len(rawAllowlist) = 0
      Build(catalogKeys) ==
        LET all == [allowAny |-> TRUE, allowedCatalog |-> catalog,
                    allowedKeys |-> catalogKeys]
            Filtered(allowedKeys, allowedCatalog) ==
              IF Len(allowedCatalog) = 0 THEN all
              ELSE [allowAny |-> FALSE, allowedCatalog |-> allowedCatalog,
                    allowedKeys |-> allowedKeys]
            Narrow(allowedKeys) ==
              Filtered(allowedKeys,
                       SelectSeq(catalog,
                                 LAMBDA e : modelKey(e.provider, e.id) \in allowedKeys))
        IN IF allowAny THEN all
           ELSE Narrow(AllowlistKeys(rawAllowlist, catalogKeys, defaultProvider))
  IN Build(CatalogKeys(catalog))

-----------------------------------------------------------------------------
(* Collaborators whose code is outside the sources at hand.                *)

RECURSIVE KeepDigitsPlus(_)
KeepDigitsPlus(s) ==
  IF s = <<>> THEN <<>>
  ELSE IF IsDigit(Head(s)) \/ Head(s) = "+" THEN <<Head(s)>> \o KeepDigitsPlus(Tail(s))
  ELSE KeepDigitsPlus(Tail(s))

\* utils.normalizeE164: digits with one leading "+"
normalizeE164(number) ==
  LET Plus(digits) ==
        IF digits # <<>> /\ Head(digits) = "+" THEN digits ELSE <<"+">> \o digits
  IN Plus(KeepDigitsPlus(Trim(StripWhatsappPrefix(number))))

W_group == <<"g","r","o","u","p",":">>
W_gus   == <<"@","g",".","u","s">>

\* ctx.From names a group chat
IsGroupFrom(from) == from # NoText /\ (Includes(from, W_gus) \/ StartsWith(from, W_group))

MainKeyDefault == <<"m","a","i","n">>
UnknownKey == <<"u","n","k","n","o","w","n">>

\* config/sessions.resolveSessionKey: one shared key, a key per group, a key per sender
resolveSessionKey(scope, from, mainKey) ==
  IF scope = "global" THEN mainKey
  ELSE IF IsGroupFrom(from)
       THEN (IF StartsWith(from, W_group) THEN from ELSE W_group \o from)
       ELSE IF from = NoText \/ KeepDigitsPlus(from) = <<>> THEN UnknownKey
            ELSE normalizeE164(from)

KW_model      == <<"m","o","d","e","l">>
KW_activation == <<"a","c","t","i","v","a","t","i","o","n">>

\* [A-Za-z0-9_.:-]
IsModelChar(c) == IsWordChar(c) \/ c \in {".", ":", "-"}

RECURSIVE ModelRunEnd(_, _)
ModelRunEnd(s, i) ==
  IF i <= Len(s) /\ IsModelChar(s[i]) THEN ModelRunEnd(s, i + 1) ELSE i

\* /model, then an optional [provider/]model argument, tried with the "/" at q:
\* <<end of match, arg from, arg to>> or <<>>
ModelDirectiveFrom(s, q) ==
  LET p == q + 1 + Len(KW_model)
      SkipColon(p1) == IF p1 <= Len(s) /\ s[p1] = ":" THEN p1 + 1 ELSE p1
      Second(e1) ==
        IF e1 <= Len(s) /\ s[e1] = "/" /\ ModelRunEnd(s, e1 + 1) > e1 + 1
        THEN ModelRunEnd(s, e1 + 1) ELSE e1
      Capture(p3, e1) ==
        IF e1 > p3 THEN <<Second(e1), p3, Second(e1)>> ELSE <<p3, 0, 0>>
      Arg(p3) == Capture(p3, ModelRunEnd(s, p3))
  IN IF OccursAtCI(s, KW_model, q + 1) /\ KeywordEnd(s, p)
     THEN Arg(SkipSpaces(s, SkipColon(SkipSpaces(s, p))))
     ELSE <<>>

ModelDirectiveAt(s, i) ==
  LET slash == IF i = 1 /\ i <= Len(s) /\ s[i] = "/" THEN i
               ELSE IF i + 1 <= Len(s) /\ IsSpace(s[i]) /\ s[i + 1] = "/" THEN i + 1
               ELSE 0
  IN IF slash = 0 THEN <<>> ELSE ModelDirectiveFrom(s, slash)

\* auto-reply/model.extractModelDirective: the model selector and its argument
extractModelDirective(body) ==
  LET At(i) == ModelDirectiveAt(body, i)
      Cut(i, m) ==
        [cleaned |-> Trim(CollapseSpaces(RemoveFirst(body, Span(body, i, m[1])))),
         rawModel |-> IF m[2] = 0 THEN NoText ELSE Trim(Span(body, m[2], m[3])),
         hasDirective |-> TRUE]
      Leftmost(hits) ==
        IF hits = {}
        THEN [cleaned |-> Trim(body), rawModel |-> NoText, hasDirective |-> FALSE]
        ELSE LET i == CHOOSE k \in hits : \A j \in hits : k <= j
             IN Cut(i, At(i))
  IN IF body = <<>> THEN [cleaned |-> <<>>, rawModel |-> NoText, hasDirective |-> FALSE]
     ELSE Leftmost({i \in 1..Len(body) : At(i) # <<>>})

normalizeGroupActivation(raw) ==
  IF raw = NoText THEN None
  ELSE LET key == ToLower(Trim(raw))
       IN CASE key = <<"m","e","n","t","i","o","n">> -> "mention"
            [] key = <<"a","l","w","a","y","s">>     -> "always"
            [] OTHER                                 -> None

RECURSIVE LetterRunEnd(_, _)
LetterRunEnd(s, i) ==
  IF i <= Len(s) /\ IsLetter(s[i]) THEN LetterRunEnd(s, i + 1) ELSE i

\* auto-reply/group-activation.parseActivationCommand: "/activation" and its mode
parseActivationCommand(raw) ==
  LET Parse(trimmed) ==
        LET k0 == IF trimmed # <<>> /\ Head(trimmed) = "/" THEN 2 ELSE 1
            p  == k0 + Len(KW_activation)
            isCommand == /\ OccursAtCI(trimmed, KW_activation, k0)
                         /\ WordBoundary(trimmed, p)
            Word(a, e) == IF a > p /\ e > a THEN Span(trimmed, a, e) ELSE NoText
            Mode(a) == normalizeGroupActivation(Word(a, LetterRunEnd(trimmed, a)))
        IN IF trimmed = <<>> \/ ~isCommand THEN [hasCommand |-> FALSE, mode |-> None]
           ELSE [hasCommand |-> TRUE, mode |-> Mode(SkipSpaces(trimmed, p))]
  IN Parse(Trim(raw))

-----------------------------------------------------------------------------
(* The session store and the state of the turns.                           *)

VARIABLES
  store,       \* the persisted store: session key -> SessionEntry
  now,         \* Date.now(), in ms
  nextId,      \* the next value crypto.randomUUID() returns
  turns,       \* slot -> the local state of the turn running in it
  started,     \* number of turns started so far
  sysEvents,   \* infra/system-events: the queued system event lines
  restarts,    \* number of triggerClawdisRestart() calls
  abortMemory, \* ABORT_MEMORY: abort key -> boolean
  ticks        \* number of advances of the clock

vars == <<store, now, nextId, turns, started, sysEvents, restarts, abortMemory, ticks>>

\* A SessionEntry holding only the required fields.  An absent optional field is
\* None / NoText / FALSE / -1; contextTokens, which every path recomputes from the
\* model and nothing reads back, is left out.
NewEntry(sessionId, updatedAt) ==
  [ sessionId |-> sessionId,
    updatedAt |-> updatedAt,
    systemSent |-> FALSE,
    abortedLastRun |-> FALSE,
    thinkingLevel |-> None,
    verboseLevel |-> None,
    modelOverride |-> NoText,
    providerOverride |-> NoText,
    groupActivation |-> None,
    groupActivationNeedsSystemIntro |-> FALSE,
    inputTokens |-> -1,
    outputTokens |-> -1,
    totalTokens |-> -1,
    model |-> NoText,
    skillsSnapshot |-> FALSE,
    lastChannel |-> None,
    lastTo |-> NoText ]

\* store[key] = entry on a store object
Put(st, key, entry) ==
  [k \in DOMAIN st \cup {key} |-> IF k = key THEN entry ELSE st[k]]

\* config/sessions.loadSessionStore and saveSessionStore: the store is one document,
\* read whole and written whole
loadSessionStore(persisted) == persisted
saveSessionStore(snapshot) == snapshot

DEFAULT_IDLE_MINUTES == 60
DEFAULT_RESET_TRIGGERS == << <<"/","n","e","w">>, <<"/","r","e","s","e","t">> >>

Max(a, b) == IF a >= b THEN a ELSE b

\* Math.max(sessionCfg?.idleMinutes ?? DEFAULT_IDLE_MINUTES, 1) * 60_000
IdleMs(cfg) ==
  Max(IF cfg.idleMinutes = <<>> THEN DEFAULT_IDLE_MINUTES ELSE cfg.idleMinutes[1], 1) * 60000

MainKeyOf(cfg) == IF cfg.mainKey = NoText THEN MainKeyDefault ELSE cfg.mainKey

ResetTriggersOf(cfg) ==
  IF Len(cfg.resetTriggers) > 0 THEN cfg.resetTriggers ELSE DEFAULT_RESET_TRIGGERS

\* getReplyFromConfig: entry && Date.now() - entry.updatedAt <= idleMs
ReplyFresh(st, key, t, idleMs) == key \in DOMAIN st /\ t - st[key].updatedAt <= idleMs

RECURSIVE ResetScan(_, _, _)
\* The loop over resetTriggers: [isNewSession, bodyStripped] at the first trigger
\* that is the whole body or a "trigger " prefix of it
ResetScan(triggers, trimmedBody, strippedForReset) ==
  IF triggers = <<>> THEN [isNewSession |-> FALSE, bodyStripped |-> NoText]
  ELSE LET trigger == Head(triggers)
           triggerPrefix == trigger \o <<" ">>
       IN IF trigger = <<>>
          THEN ResetScan(Tail(triggers), trimmedBody, strippedForReset)
          ELSE IF trimmedBody = trigger \/ strippedForReset = trigger
          THEN [isNewSession |-> TRUE, bodyStripped |-> <<>>]
          ELSE IF StartsWith(trimmedBody, triggerPrefix)
                  \/ StartsWith(strippedForReset, triggerPrefix)
          THEN [isNewSession |-> TRUE,
                bodyStripped |-> TrimStart(SliceFrom(strippedForReset, Len(trigger)))]
          ELSE ResetScan(Tail(triggers), trimmedBody, strippedForReset)

Idle == [kind |-> "idle", pc |-> "idle"]

\* The result of a turn: nothing (undefined), one text, the agent's payloads, or the
\* error it rejects with
NoReply == [kind |-> "none", parts |-> <<>>]
TextReply(parts) == [kind |-> "text", parts |-> parts]

\* getReplyFromConfig up to the first save of the store: reset triggers, session key,
\* freshness, the session entry of this turn
ReplySession(ctx, cfg, persisted, t, uuid) ==
  LET isGroup == IsGroupFrom(ctx.From)
      StrippedForReset(triggerBodyNormalized) ==
        IF isGroup THEN stripMentions(triggerBodyNormalized, ctx.To, cfg.mentionPatterns)
        ELSE triggerBodyNormalized
      Resolve(triggerBodyNormalized, reset, sessionKey, sessionStore) ==
        LET freshEntry == ReplyFresh(sessionStore, sessionKey, t, IdleMs(cfg))
            reuse == ~reset.isNewSession /\ freshEntry
            entry == sessionStore[sessionKey]
            sessionId == IF reuse THEN entry.sessionId ELSE uuid
            sessionEntry ==
              IF reuse THEN [entry EXCEPT !.updatedAt = t]
              ELSE NewEntry(sessionId, t)
        IN [ isGroup |-> isGroup,
             triggerBodyNormalized |-> triggerBodyNormalized,
             bodyStripped |-> reset.bodyStripped,
             sessionKey |-> sessionKey,
             freshEntry |-> freshEntry,
             isNewSession |-> ~reuse,
             sessionId |-> sessionId,
             systemSent |-> IF reuse THEN entry.systemSent ELSE FALSE,
             abortedLastRun |-> IF reuse THEN entry.abortedLastRun ELSE FALSE,
             sessionEntry |-> sessionEntry,
             sessionStore |-> Put(sessionStore, sessionKey, sessionEntry) ]
      Scan(triggerBodyNormalized) ==
        Resolve(triggerBodyNormalized,
                ResetScan(ResetTriggersOf(cfg), Trim(ctx.Body),
                          StrippedForReset(triggerBodyNormalized)),
                resolveSessionKey(cfg.scope, ctx.From, MainKeyOf(cfg)),
                loadSessionStore(persisted))
  IN Scan(ToLower(Trim(stripStructuralPrefixes(ctx.Body))))

\* {...r, ...u}
With(r, u) ==
  [k \in DOMAIN r \cup DOMAIN u |-> IF k \in DOMAIN u THEN u[k] ELSE r[k]]

\* Boolean(text): set and not ""
Truthy(t) == t # NoText /\ t # <<>>

\* a ?? b on levels
Coalesce(a, b) == IF a # None THEN a ELSE b

\* agents/model-catalog.loadModelCatalog: the catalog the configuration resolves to
loadModelCatalog(cfg) == cfg.catalog

\* getReplyFromConfig from the directive extraction to directiveOnly: the
\* directives of the body, the allowed models, the validation of the stored
\* override (which may save the store) and the provider/model of the turn
ReplyDirectives(t, clock) ==
  LET cfg == t.cfg
      entry == t.sessionEntry
      body == IF t.bodyStripped # NoText THEN t.bodyStripped ELSE t.ctx.Body
      hasAllowlist == Len(cfg.allowedModels) > 0
      hasStoredOverride == Truthy(entry.modelOverride) \/ Truthy(entry.providerOverride)
      \* lines 395-414: the allowed models, loaded when something needs them
      Allowed(def, mdl) ==
        IF mdl.hasDirective \/ hasAllowlist \/ hasStoredOverride
        THEN buildAllowedModelSet(cfg, loadModelCatalog(cfg), def.provider)
        ELSE [allowAny |-> TRUE, allowedCatalog |-> <<>>, allowedKeys |-> {}]
      \* lines 416-442: the stored override is dropped when it is not allowed,
      \* and applied when it is
      Applied(def, allowedModelKeys, entry2, storedProviderOverride,
              storedModelOverride) ==
        LET candidateProvider ==
              IF storedProviderOverride # <<>> THEN storedProviderOverride
              ELSE def.provider
            useStored ==
              /\ storedModelOverride # <<>>
              /\ \/ allowedModelKeys = {}
                 \/ modelKey(candidateProvider, storedModelOverride) \in allowedModelKeys
        IN [ sessionEntry |-> entry2,
             provider |-> IF useStored THEN candidateProvider ELSE def.provider,
             model |-> IF useStored THEN storedModelOverride ELSE def.model ]
      Validated(def, allowedModelKeys, resetModelOverride) ==
        LET entry2 ==
              IF resetModelOverride
              THEN [entry EXCEPT !.providerOverride = NoText, !.modelOverride = NoText,
                                 !.updatedAt = clock]
              ELSE entry
        IN With([ resetModelOverride |-> resetModelOverride,
                  sessionStore |->
                    IF resetModelOverride THEN Put(t.sessionStore, t.sessionKey, entry2)
                    ELSE t.sessionStore,
                  saved |-> resetModelOverride ],
                Applied(def, allowedModelKeys, entry2,
                        TrimOrEmpty(entry2.providerOverride),
                        TrimOrEmpty(entry2.modelOverride)))
      Stored(def, allowedModelKeys, overrideProvider, overrideModel) ==
        Validated(def, allowedModelKeys,
                  /\ hasStoredOverride
                  /\ overrideModel # <<>>
                  /\ allowedModelKeys # {}
                  /\ modelKey(IF overrideProvider # <<>> THEN overrideProvider
                              ELSE def.provider,
                              overrideModel) \notin allowedModelKeys)
      NoMentions(stripped) ==
        IF t.isGroup THEN stripMentions(stripped, t.ctx.To, cfg.mentionPatterns)
        ELSE stripped
      Collect(def, think, verbose, mdl, allowed, noMentions) ==
        With([ defaultProvider |-> def.provider,
               defaultModel |-> def.model,
               hasThinkDirective |-> think.hasDirective,
               inlineThink |-> think.thinkLevel,
               rawThinkLevel |-> think.rawLevel,
               hasVerboseDirective |-> verbose.hasDirective,
               inlineVerbose |-> verbose.verboseLevel,
               rawVerboseLevel |-> verbose.rawLevel,
               hasModelDirective |-> mdl.hasDirective,
               rawModelDirective |-> mdl.rawModel,
               modelCleaned |-> mdl.cleaned,
               resolvedThinkLevel |->
                 Coalesce(think.thinkLevel,
                          Coalesce(entry.thinkingLevel, cfg.thinkingDefault)),
               resolvedVerboseLevel |->
                 Coalesce(verbose.verboseLevel,
                          Coalesce(entry.verboseLevel, cfg.verboseDefault)),
               allowedModelKeys |-> allowed.allowedKeys,
               allowedModelCatalog |-> allowed.allowedCatalog,
               directiveOnly |->
                 /\ think.hasDirective \/ verbose.hasDirective \/ mdl.hasDirective
                 /\ Len(noMentions) = 0 ],
             Stored(def, allowed.allowedKeys, TrimOrEmpty(entry.providerOverride),
                    TrimOrEmpty(entry.modelOverride)))
      \* lines 346-364: each extractor works on what the one before it left
      WithModel(def, think, verbose, mdl) ==
        Collect(def, think, verbose, mdl, Allowed(def, mdl),
                NoMentions(stripStructuralPrefixes(mdl.cleaned)))
      WithVerbose(def, think, verbose) ==
        WithModel(def, think, verbose, extractModelDirective(verbose.cleaned))
      WithThink(def, think) ==
        WithVerbose(def, think, extractVerboseDirective(think.cleaned))
  IN WithThink(resolveConfiguredModelRef(cfg, DEFAULT_PROVIDER, DEFAULT_MODEL),
               extractThinkDirective(body))

\* The inline level or model written into the entry: "off" and the default delete
SetThinkingVerbatim(entry, level) == [entry EXCEPT !.thinkingLevel = level]

SetThinking(entry, level) ==
  [entry EXCEPT !.thinkingLevel = IF level = "off" THEN None ELSE level]

SetVerbose(entry, level) ==
  [entry EXCEPT !.verboseLevel = IF level = "off" THEN None ELSE level]

SetModel(entry, ref, isDefault) ==
  IF isDefault
  THEN [entry EXCEPT !.providerOverride = NoText, !.modelOverride = NoText]
  ELSE [entry EXCEPT !.providerOverride = ref.provider, !.modelOverride = ref.model]

\* The listing with every entry of the catalog, allowed or not
ModelListingWhole(t) ==
  LET current == modelKey(t.provider, t.model)
      defaultLabel == modelKey(t.defaultProvider, t.defaultModel)
      header == IF current = defaultLabel
                THEN <<"Models (current):", current>>
                ELSE <<"Models (current, default):", current, defaultLabel>>
      labels == [i \in DOMAIN t.cfg.catalog |->
                   <<"-">> \o modelKey(t.cfg.catalog[i].provider, t.cfg.catalog[i].id)]
  IN <<header>> \o labels

\* The lines of the "/model" listing
ModelListing(t) ==
  LET current == modelKey(t.provider, t.model)
      defaultLabel == modelKey(t.defaultProvider, t.defaultModel)
      header == IF current = defaultLabel
                THEN <<"Models (current):", current>>
                ELSE <<"Models (current, default):", current, defaultLabel>>
      note == IF t.resetModelOverride
              THEN << <<"(previous selection reset to default)">> >> ELSE <<>>
      labels == [i \in DOMAIN t.allowedModelCatalog |->
                   <<"-">> \o modelKey(t.allowedModelCatalog[i].provider,
                                      t.allowedModelCatalog[i].id)]
  IN <<header>> \o note \o labels

\* The parts of the acknowledgement of a directive-only message
AckParts(t, modelSelection, isDefault) ==
  LET thinkPart ==
        IF t.hasThinkDirective /\ t.inlineThink # None
        THEN << IF t.inlineThink = "off" THEN <<"Thinking disabled.">>
                ELSE <<"Thinking level set to", t.inlineThink>> >>
        ELSE <<>>
      verbosePart ==
        IF t.hasVerboseDirective /\ t.inlineVerbose # None
        THEN << IF t.inlineVerbose = "off" THEN <<"Verbose logging disabled.">>
                ELSE <<"Verbose logging enabled.">> >>
        ELSE <<>>
      modelPart ==
        IF modelSelection # NoRef
        THEN << (IF isDefault THEN <<"Model reset to default">> ELSE <<"Model set to">>)
                \o modelKey(modelSelection.provider, modelSelection.model) >>
        ELSE <<>>
      parts == thinkPart \o verbosePart \o modelPart
  IN IF parts = <<>> THEN << <<"OK.">> >> ELSE parts

\* getReplyFromConfig, the branch of a message that holds directives only: the
\* listing, the rejections, or the levels and the model stored and acknowledged
ReplyDirectiveOnly(t, clock) ==
  LET selects == t.hasModelDirective /\ Truthy(t.rawModelDirective)
      keep == [sessionEntry |-> t.sessionEntry, sessionStore |-> t.sessionStore,
               saved |-> FALSE]
      Levels(e) ==
        IF t.hasVerboseDirective /\ t.inlineVerbose # None
        THEN SetVerbose(e, t.inlineVerbose) ELSE e
      Stored(e, modelSelection, isDefault) ==
        [ sessionEntry |-> e,
          sessionStore |-> Put(t.sessionStore, t.sessionKey, e),
          saved |-> TRUE,
          reply |-> TextReply(AckParts(t, modelSelection, isDefault)) ]
      Persist(parsed, isDefault, e) ==
        Stored([(IF selects THEN SetModel(e, parsed, isDefault) ELSE e)
                  EXCEPT !.updatedAt = clock],
               IF selects THEN parsed ELSE NoRef, isDefault)
      Accepted(parsed) ==
        Persist(parsed,
                parsed.provider = t.defaultProvider /\ parsed.model = t.defaultModel,
                Levels(IF t.hasThinkDirective /\ t.inlineThink # None
                       THEN SetThinking(t.sessionEntry, t.inlineThink)
                       ELSE t.sessionEntry))
      Select(parsed, key) ==
        IF selects /\ parsed = NoRef
        THEN With(keep, [reply |-> TextReply(<< <<"Unrecognized model">>
                                                \o t.rawModelDirective >>)])
        ELSE IF selects /\ t.allowedModelKeys # {} /\ key \notin t.allowedModelKeys
        THEN With(keep, [reply |-> TextReply(<< <<"Model is not allowed">> \o key >>)])
        ELSE Accepted(parsed)
      Parsed(parsed) == Select(parsed, modelKey(parsed.provider, parsed.model))
  IN IF t.hasModelDirective /\ ~Truthy(t.rawModelDirective)
     THEN With(keep, [reply |->
            IF Len(t.allowedModelCatalog) = 0
            THEN TextReply(<< <<"No models available.">> >>)
            ELSE TextReply(ModelListing(t))])
     ELSE IF t.hasThinkDirective /\ t.inlineThink = None
     THEN With(keep, [reply |-> TextReply(<< <<"Unrecognized thinking level">>
                                  \o (IF t.rawThinkLevel = NoText THEN <<>>
                                      ELSE t.rawThinkLevel) >>)])
     ELSE IF t.hasVerboseDirective /\ t.inlineVerbose = None
     THEN With(keep, [reply |-> TextReply(<< <<"Unrecognized verbose level">>
                                  \o (IF t.rawVerboseLevel = NoText THEN <<>>
                                      ELSE t.rawVerboseLevel) >>)])
     ELSE Parsed(parseModelRef(t.rawModelDirective, t.defaultProvider))

\* getReplyFromConfig, inline directives followed by other text: the recognized
\* levels and an allowed model are stored, the rest is left alone
ReplyInline(t, clock) ==
  LET setsThink == t.hasThinkDirective /\ t.inlineThink # None
      setsVerbose == t.hasVerboseDirective /\ t.inlineVerbose # None
      Written(updated, e) ==
        [ sessionEntry |-> e,
          sessionStore |->
            IF updated THEN Put(t.sessionStore, t.sessionKey, e) ELSE t.sessionStore,
          saved |-> updated ]
      Stamped(updated, e) ==
        Written(updated, IF updated THEN [e EXCEPT !.updatedAt = clock] ELSE e)
      Levels(e) == IF setsVerbose THEN SetVerbose(e, t.inlineVerbose) ELSE e
      Persist(parsed, setsModel, e) ==
        With(Stamped(setsThink \/ setsVerbose \/ setsModel,
                     IF setsModel
                     THEN SetModel(e, parsed,
                                   /\ parsed.provider = t.defaultProvider
                                   /\ parsed.model = t.defaultModel)
                     ELSE e),
             [ provider |-> IF setsModel THEN parsed.provider ELSE t.provider,
               model |-> IF setsModel THEN parsed.model ELSE t.model ])
      Select(parsed) ==
        Persist(parsed,
                /\ t.hasModelDirective /\ Truthy(t.rawModelDirective)
                /\ parsed # NoRef
                /\ \/ t.allowedModelKeys = {}
                   \/ modelKey(parsed.provider, parsed.model) \in t.allowedModelKeys,
                Levels(IF setsThink THEN SetThinking(t.sessionEntry, t.inlineThink)
                       ELSE t.sessionEntry))
  IN Select(parseModelRef(t.rawModelDirective, t.defaultProvider))

W_restart == <<"r","e","s","t","a","r","t">>
W_status  == <<"s","t","a","t","u","s">>

\* body === "/word" || body === "word" || body.startsWith("/word ")
IsCommand(body, word) ==
  \/ body = <<"/">> \o word
  \/ body = word
  \/ StartsWith(body, <<"/">> \o word \o <<" ">>)

\* The sender and owner facts of the access-control block
Access(ctx, cfg, isGroup) ==
  LET configuredAllowFrom == cfg.allowFrom
      Decide(from, to, senderE164) ==
        LET isSamePhone == from # <<>> /\ to # <<>> /\ from = to
            allowFrom == IF Len(configuredAllowFrom) > 0 THEN configuredAllowFrom
                         ELSE IF to # <<>> THEN <<to>> ELSE <<>>
            IsOwner(ownerList) ==
              senderE164 # <<>> /\ \E i \in DOMAIN ownerList : ownerList[i] = senderE164
            Owners(ownerCandidates) ==
              IsOwner(SelectSeq([i \in DOMAIN ownerCandidates |->
                                   normalizeE164(ownerCandidates[i])],
                                LAMBDA e : e # <<>>))
            Candidates(listed) ==
              Owners(IF listed = <<>> /\ to # <<>> THEN <<to>> ELSE listed)
            inList(x) == \E i \in DOMAIN allowFrom : allowFrom[i] = x
        IN [ isOwnerSender |->
               Candidates(SelectSeq(allowFrom, LAMBDA e : e # <<>> /\ e # <<"*">>)),
             denied |->
               /\ ~isSamePhone
               /\ ~isGroup
               /\ Len(allowFrom) > 0
               /\ ~inList(<<"*">>)
               /\ ~inList(from) ]
  IN Decide(StripWhatsappPrefix(ctx.From), StripWhatsappPrefix(ctx.To),
            normalizeE164(ctx.SenderE164))

AbortAck == TextReply(<< <<"Agent was aborted.">> >>)

\* abortKey = sessionKey ?? from ?? to; the session key is always resolved
AbortKey(t) == t.sessionKey

\* sessionEntry && sessionStore && sessionKey: the turn holds the entry it stored
\* when it resolved the session
HasSessionEntry(t) == t.sessionKey \in DOMAIN t.sessionStore

\* abortedLastRun of the turn: never set
AbortedLastRunNever(t, memory) == FALSE

\* if (!sessionEntry && abortKey) abortedLastRun = ABORT_MEMORY.get(abortKey) ?? false
AbortedLastRunRead(t, memory) ==
  IF HasSessionEntry(t) THEN t.abortedLastRun
  ELSE IF AbortKey(t) \in DOMAIN memory THEN memory[AbortKey(t)] ELSE FALSE

\* ABORT_MEMORY after the abort branch: written by every abort
AbortRememberedAlways(t, memory) == Put(memory, AbortKey(t), TRUE)

\* ABORT_MEMORY after the abort branch: written only when the turn has no entry
AbortRemembered(t, memory) ==
  IF HasSessionEntry(t) THEN memory ELSE Put(memory, AbortKey(t), TRUE)

\* ABORT_MEMORY after the hint was put before the prompt: cleared only when the turn
\* has no entry
AbortForgotten(t, memory) ==
  IF HasSessionEntry(t) THEN memory ELSE Put(memory, AbortKey(t), FALSE)

\* getReplyFromConfig from the access control to the abort check: each branch ends
\* the turn with its reply; "go on" when none applies
ReplyCommands(t, clock) ==
  LET rawBodyNormalized == t.triggerBodyNormalized
      keep == [sessionEntry |-> t.sessionEntry, sessionStore |-> t.sessionStore,
               saved |-> FALSE, restart |-> FALSE, ends |-> TRUE, reply |-> NoReply,
               aborts |-> FALSE]
      aborted == [t.sessionEntry EXCEPT !.abortedLastRun = TRUE, !.updatedAt = clock]
      Dispatch(access, commandBodyNormalized, activationCommand) ==
        LET gated == t.isGroup /\ ~access.isOwnerSender
            activated ==
              [t.sessionEntry EXCEPT !.groupActivation = activationCommand.mode,
                                     !.groupActivationNeedsSystemIntro = TRUE,
                                     !.updatedAt = clock]
        IN
     IF access.denied THEN keep
     ELSE IF activationCommand.hasCommand
     THEN (IF ~t.isGroup
          THEN With(keep, [reply |-> TextReply(
                 << <<"Group activation only applies to group chats.">> >>)])
          ELSE IF ~access.isOwnerSender THEN keep
          ELSE IF activationCommand.mode = None
          THEN With(keep, [reply |-> TextReply(
                 << <<"Usage: /activation mention|always">> >>)])
          ELSE With(keep, [sessionEntry |-> activated,
                           sessionStore |-> Put(t.sessionStore, t.sessionKey, activated),
                           saved |-> TRUE,
                           reply |-> TextReply(<< <<"Group activation set to",
                                                     activationCommand.mode>> >>)]))
     ELSE IF IsCommand(commandBodyNormalized, W_restart)
     THEN (IF gated THEN keep
           ELSE With(keep, [restart |-> TRUE,
                            reply |-> TextReply(<< <<"Restarting clawdis">> >>)]))
     ELSE IF IsCommand(commandBodyNormalized, W_status)
     THEN (IF gated THEN keep
           ELSE With(keep, [reply |-> TextReply(<< <<"Status">> >>)]))
     ELSE IF isAbortTrigger(rawBodyNormalized)
     THEN With(keep, [sessionEntry |-> aborted,
                      sessionStore |-> Put(t.sessionStore, t.sessionKey, aborted),
                      saved |-> TRUE,
                      aborts |-> TRUE,
                      reply |-> AbortAck])
     ELSE With(keep, [ends |-> FALSE])
      Command(access, commandBodyNormalized) ==
        Dispatch(access, commandBodyNormalized,
                 parseActivationCommand(commandBodyNormalized))
  IN Command(Access(t.ctx, t.cfg, t.isGroup),
             IF t.isGroup
             THEN stripMentions(rawBodyNormalized, t.ctx.To, t.cfg.mentionPatterns)
             ELSE rawBodyNormalized)

BARE_SESSION_RESET_PROMPT ==
  <<"A new session was started via /new or /reset. Say hi briefly (1-2 sentences) and ask what the user wants to do next. Do not mention internal steps, files, tools, or reasoning.">>

AbortedHint ==
  <<"Note: The previous agent run was aborted by the user. Resume carefully or ask for clarification.">>

EmptyBodyReply ==
  TextReply(<< <<"I didn't receive any text in your message. Please resend or add a caption.">> >>)

\* baseBodyFinal: the bootstrap prompt stands in for the body a bare reset trigger
\* leaves empty
BaseBodyFinalAsSent(isNewSession, baseBody, rawBody) == baseBody

BaseBodyFinal(isNewSession, baseBody, rawBody) ==
  LET isBareSessionReset ==
        isNewSession /\ Len(Trim(baseBody)) = 0 /\ Len(Trim(rawBody)) > 0
  IN IF isBareSessionReset THEN BARE_SESSION_RESET_PROMPT ELSE baseBody

\* getReplyFromConfig from the group intro to the aborted hint: the body of the
\* prompt (the bootstrap prompt after a bare reset), the empty-body reply, and the
\* hint that consumes abortedLastRun (which saves the store)
ReplyPrompt(t, clock) ==
  LET isFirstTurnInSession == t.isNewSession \/ ~t.systemSent
      isGroupChat == t.ctx.ChatType = "group"
      shouldInjectGroupIntro ==
        isGroupChat /\ (isFirstTurnInSession \/ t.sessionEntry.groupActivationNeedsSystemIntro)
      activation ==
        IF t.sessionEntry.groupActivation # None THEN t.sessionEntry.groupActivation
        ELSE IF t.cfg.requireMention = "false" THEN "always" ELSE "mention"
      hinted == t.abortedLastRun
      cleared == [t.sessionEntry EXCEPT !.abortedLastRun = FALSE, !.updatedAt = clock]
      Prompt(baseBodyFinal, ends, saves) ==
     [ isFirstTurnInSession |-> isFirstTurnInSession,
       shouldInjectGroupIntro |-> shouldInjectGroupIntro,
       groupIntro |-> IF shouldInjectGroupIntro THEN activation ELSE None,
       baseBodyFinal |-> baseBodyFinal,
       hinted |-> ~ends /\ hinted,
       prefixedBodyBase |->
         IF hinted THEN AbortedHint \o <<"\n", "\n">> \o baseBodyFinal ELSE baseBodyFinal,
       ends |-> ends,
       reply |-> IF ends THEN EmptyBodyReply ELSE NoReply,
       sessionEntry |-> IF saves THEN cleared ELSE t.sessionEntry,
       sessionStore |->
         IF saves THEN Put(t.sessionStore, t.sessionKey, cleared) ELSE t.sessionStore,
       saved |-> saves ]
      Body(baseBodyFinal, ends) == Prompt(baseBodyFinal, ends, ~ends /\ hinted)
      Final(baseBodyFinal) == Body(baseBodyFinal, Trim(baseBodyFinal) = <<>>)
  IN Final(BaseBodyFinal(t.isNewSession, t.modelCleaned, t.ctx.Body))

\* The event lines no prompt repeats: periodic and heartbeat noise
NoiseEvents == { <<"heartbeat">>, <<"reason periodic">> }

\* compactSystemEvent over the drained lines
CompactEvents(lines) == SelectSeq(lines, LAMBDA l : l # <<>> /\ l \notin NoiseEvents)

\* infra/provider-summary.buildProviderSummary: the provider lines of the configuration
buildProviderSummary(cfg) == cfg.providerSummary

\* block = systemLines.map(l => `System: ${l}`).join("\n")
SystemBlock(systemLines) ==
  JoinWith([i \in DOMAIN systemLines |-> <<"System: ">> \o systemLines[i]], <<"\n">>)

\* getReplyFromConfig from the system events to the skills snapshot: the drained
\* events and the provider summary put before the prompt of a main session, and
\* the first-turn or snapshot write of the entry
ReplyContext(t, clock, queued) ==
  LET isMainSession == ~IsGroupFrom(t.ctx.From) /\ t.sessionKey = MainKeyOf(t.cfg)
      systemLines ==
        IF isMainSession
        THEN (IF t.isNewSession THEN buildProviderSummary(t.cfg) ELSE <<>>)
             \o CompactEvents(queued)
        ELSE <<>>
      prefixedBodyBase ==
        IF Len(systemLines) > 0
        THEN SystemBlock(systemLines) \o <<"\n", "\n">> \o t.prefixedBodyBase
        ELSE t.prefixedBodyBase
      first == [t.sessionEntry EXCEPT !.updatedAt = clock, !.systemSent = TRUE,
                                      !.skillsSnapshot = TRUE]
      snap == [t.sessionEntry EXCEPT !.updatedAt = clock, !.skillsSnapshot = TRUE]
      entry == IF t.isFirstTurnInSession THEN first
               ELSE IF ~t.sessionEntry.skillsSnapshot THEN snap
               ELSE t.sessionEntry
      saves == t.isFirstTurnInSession \/ ~t.sessionEntry.skillsSnapshot
  IN [ drains |-> isMainSession,
       drained |-> IF isMainSession THEN queued ELSE <<>>,
       prefixedBodyBase |-> prefixedBodyBase,
       systemSent |-> t.systemSent \/ t.isFirstTurnInSession,
       snapshotBuilt |-> saves,
       sessionEntry |-> entry,
       sessionStore |->
         IF saves THEN Put(t.sessionStore, t.sessionKey, entry) ELSE t.sessionStore,
       saved |-> saves ]

\* parts[0] of commandBody.split(/\s+/)
FirstWord(s) ==
  LET ws == {i \in 1..Len(s) : IsSpace(s[i])}
  IN IF ws = {} THEN s ELSE SubSeq(s, 1, (CHOOSE i \in ws : \A j \in ws : i <= j) - 1)

\* parts.slice(1).join(" ").trim()
AfterFirstWord(s) ==
  Trim(CollapseSpaces(SubSeq(s, Len(FirstWord(s)) + 1, Len(s))))

\* The prompt and the levels handed to the agent: a leading level word is consumed
\* as the thinking level when no level is resolved
ReplyRun(t) ==
  LET commandBody == t.prefixedBodyBase
      maybeLevel == normalizeThinkLevel(FirstWord(commandBody))
      stray == t.resolvedThinkLevel = None /\ commandBody # <<>> /\ maybeLevel # None
  IN [ sessionId |-> t.sessionId,
       sessionKey |-> t.sessionKey,
       prompt |-> IF stray THEN AfterFirstWord(commandBody) ELSE commandBody,
       extraSystemPrompt |-> t.groupIntro,
       provider |-> t.provider,
       model |-> t.model,
       thinkLevel |-> IF stray THEN maybeLevel ELSE t.resolvedThinkLevel,
       verboseLevel |-> t.resolvedVerboseLevel ]

\* runResult.meta.agentMeta.usage, absent
NoUsage == [input |-> -1, output |-> -1, cacheRead |-> -1, cacheWrite |-> -1, total |-> -1]

\* usage.x ?? d
Or(x, d) == IF x = -1 THEN d ELSE x

\* The usage written into the entry
WithUsage(entry, usage, modelUsed, clock) ==
  LET input == Or(usage.input, 0)
      output == Or(usage.output, 0)
      promptTokens == input + Or(usage.cacheRead, 0) + Or(usage.cacheWrite, 0)
  IN [entry EXCEPT !.inputTokens = input,
                   !.outputTokens = output,
                   !.totalTokens = IF promptTokens > 0 THEN promptTokens
                                   ELSE Or(usage.total, input),
                   !.model = modelUsed,
                   !.updatedAt = clock]

\* getReplyFromConfig after the agent returned: the one-shot group intro flag is
\* cleared (which saves the store)
ReplyIntroSent(t, clock) ==
  LET clears == t.shouldInjectGroupIntro /\ t.sessionEntry.groupActivationNeedsSystemIntro
      entry == [t.sessionEntry EXCEPT !.groupActivationNeedsSystemIntro = FALSE,
                                      !.updatedAt = clock]
  IN [ sessionEntry |-> IF clears THEN entry ELSE t.sessionEntry,
       sessionStore |->
         IF clears THEN Put(t.sessionStore, t.sessionKey, entry) ELSE t.sessionStore,
       saved |-> clears ]

\* getReplyFromConfig, the end of the turn, with the session banner put after the
\* payloads
ReplyPostBannerLast(t, clock) ==
  LET result == t.runResult
      usage == result.usage
      modelUsed == IF result.model # NoText THEN result.model ELSE t.defaultModel
      entry == IF usage # NoUsage
               THEN WithUsage(t.sessionEntry, usage, modelUsed, clock)
               ELSE [t.sessionEntry EXCEPT !.model = modelUsed]
      empty == Len(result.payloads) = 0
      hint == IF t.resolvedVerboseLevel = "on" /\ t.isNewSession
              THEN << <<"New session:", t.sessionId>> >> ELSE <<>>
      Returned(finalPayloads) ==
        IF empty THEN [shape |-> "undefined"]
        ELSE IF Len(finalPayloads) = 1
        THEN [shape |-> "payload", value |-> finalPayloads[1]]
        ELSE [shape |-> "array", value |-> finalPayloads]
  IN [ sessionEntry |-> IF empty THEN t.sessionEntry ELSE entry,
       sessionStore |->
         IF empty THEN t.sessionStore ELSE Put(t.sessionStore, t.sessionKey, entry),
       saved |-> ~empty,
       returned |-> Returned(result.payloads \o hint),
       reply |-> IF empty THEN NoReply
                 ELSE [kind |-> "payloads", parts |-> hint \o result.payloads] ]

\* getReplyFromConfig, the end of the turn: nothing when the agent has no payload,
\* else the usage and the model written to the entry and the payloads returned
ReplyPost(t, clock) ==
  LET result == t.runResult
      usage == result.usage
      modelUsed == IF result.model # NoText THEN result.model ELSE t.defaultModel
      entry == IF usage # NoUsage
               THEN WithUsage(t.sessionEntry, usage, modelUsed, clock)
               ELSE [t.sessionEntry EXCEPT !.model = modelUsed]
      empty == Len(result.payloads) = 0
      hint == IF t.resolvedVerboseLevel = "on" /\ t.isNewSession
              THEN << <<"New session:", t.sessionId>> >> ELSE <<>>
      Returned(finalPayloads) ==
        IF empty THEN [shape |-> "undefined"]
        ELSE IF Len(finalPayloads) = 1
        THEN [shape |-> "payload", value |-> finalPayloads[1]]
        ELSE [shape |-> "array", value |-> finalPayloads]
  IN [ sessionEntry |-> IF empty THEN t.sessionEntry ELSE entry,
       sessionStore |->
         IF empty THEN t.sessionStore ELSE Put(t.sessionStore, t.sessionKey, entry),
       saved |-> ~empty,
       returned |-> Returned(hint \o result.payloads),
       reply |-> IF empty THEN NoReply
                 ELSE [kind |-> "payloads", parts |-> hint \o result.payloads] ]

-----------------------------------------------------------------------------
(* The steps of a turn.  A step runs the code from one suspension to the    *)
(* next save of the store; the store on disk changes only by saves.         *)

Slots == 1..3

Active(s) == turns[s].pc \notin {"idle", "done"}

\* The turn in slot s takes the results u of a step, saves when the step saved
\* (savedAt: the time of its last save), and goes on at pc
Proceed(s, u, pc) ==
  /\ turns' = [turns EXCEPT ![s] =
       With(With(turns[s], u),
            IF u.saved THEN [pc |-> pc, savedAt |-> now] ELSE [pc |-> pc])]
  /\ store' = IF u.saved THEN saveSessionStore(u.sessionStore) ELSE store

\* What every turn starts with
Fresh(kind, pc) ==
  [ kind |-> kind, pc |-> pc, startStore |-> store, startedAt |-> now,
    reply |-> NoReply, saved |-> FALSE,
    delegated |-> FALSE, queued |-> FALSE, restarted |-> FALSE ]

\* getReplyFromConfig(ctx, opts, cfg) called: the session of the message is resolved
\* and saved
ReplySessionStep(s, ctx, cfg) ==
  /\ ~Active(s)
  /\ LET Resolved(r) ==
           /\ turns' = [turns EXCEPT ![s] =
                          With(With(Fresh("reply", "directives"),
                                    [ctx |-> ctx, cfg |-> cfg]), r)]
           /\ store' = saveSessionStore(r.sessionStore)
           /\ nextId' = IF r.isNewSession THEN nextId + 1 ELSE nextId
     IN Resolved(ReplySession(ctx, cfg, store, now, nextId))
  /\ started' = started + 1
  /\ UNCHANGED <<now, sysEvents, restarts, abortMemory>>

ReplyDirectivesStep(s) ==
  /\ turns[s].kind = "reply" /\ turns[s].pc = "directives"
  /\ Proceed(s, ReplyDirectives(turns[s], now), "dispatch")
  /\ UNCHANGED <<now, nextId, started, sysEvents, restarts, abortMemory>>

ReplyDirectiveOnlyStep(s) ==
  /\ turns[s].kind = "reply" /\ turns[s].pc = "dispatch"
  /\ turns[s].directiveOnly
  /\ Proceed(s, ReplyDirectiveOnly(turns[s], now), "done")
  /\ UNCHANGED <<now, nextId, started, sysEvents, restarts, abortMemory>>

ReplyInlineStep(s) ==
  /\ turns[s].kind = "reply" /\ turns[s].pc = "dispatch"
  /\ ~turns[s].directiveOnly
  /\ Proceed(s, ReplyInline(turns[s], now), "commands")
  /\ UNCHANGED <<now, nextId, started, sysEvents, restarts, abortMemory>>

ReplyCommandsStep(s) ==
  /\ turns[s].kind = "reply" /\ turns[s].pc = "commands"
  /\ LET Handled(u) ==
           /\ Proceed(s, With(u, [restarted |-> u.restart,
                                  abortedLastRun |->
                                    AbortedLastRunRead(turns[s], abortMemory)]),
                      IF u.ends THEN "done" ELSE "prompt")
           /\ restarts' = IF u.restart THEN restarts + 1 ELSE restarts
           /\ abortMemory' = IF u.aborts THEN AbortRemembered(turns[s], abortMemory)
                             ELSE abortMemory
     IN Handled(ReplyCommands(turns[s], now))
  /\ UNCHANGED <<now, nextId, started, sysEvents>>

ReplyPromptStep(s) ==
  /\ turns[s].kind = "reply" /\ turns[s].pc = "prompt"
  /\ LET Built(u) ==
           /\ Proceed(s, u, IF u.ends THEN "done" ELSE "context")
           /\ abortMemory' = IF u.hinted THEN AbortForgotten(turns[s], abortMemory)
                             ELSE abortMemory
     IN Built(ReplyPrompt(turns[s], now))
  /\ UNCHANGED <<now, nextId, started, sysEvents, restarts>>

ReplyContextStep(s) ==
  /\ turns[s].kind = "reply" /\ turns[s].pc = "context"
  /\ LET Built(u) ==
           /\ Proceed(s, u, "delegate")
           /\ sysEvents' = IF u.drains THEN <<>> ELSE sysEvents
     IN Built(ReplyContext(turns[s], now, sysEvents))
  /\ UNCHANGED <<now, nextId, started, restarts, abortMemory>>

\* agents/pi-embedded: a run of the engine is in flight for the session
RunInFlight(sessionId) ==
  \E o \in Slots : turns[o].pc = "agent" /\ turns[o].run.sessionId = sessionId

\* queuedBody: the text of a message that joins a run in flight
ReplyQueued(t) == t.baseBodyFinal

\* queueEmbeddedPiMessage returned true: the message joins the run in flight, the
\* entry is touched and the turn ends without a reply
ReplyQueueStep(s) ==
  /\ turns[s].kind = "reply" /\ turns[s].pc = "delegate"
  /\ RunInFlight(turns[s].sessionId)
  /\ LET entry == [turns[s].sessionEntry EXCEPT !.updatedAt = now]
     IN Proceed(s, [ sessionEntry |-> entry,
                     sessionStore |-> Put(turns[s].sessionStore, turns[s].sessionKey, entry),
                     saved |-> TRUE,
                     queuedBody |-> ReplyQueued(turns[s]),
                     queued |-> TRUE ], "done")
  /\ UNCHANGED <<now, nextId, started, sysEvents, restarts, abortMemory>>

\* queueEmbeddedPiMessage returned false: runEmbeddedPiAgent is called
ReplyRunStep(s) ==
  /\ turns[s].kind = "reply" /\ turns[s].pc = "delegate"
  /\ Proceed(s, [run |-> ReplyRun(turns[s]), delegated |-> TRUE, saved |-> FALSE], "agent")
  /\ UNCHANGED <<now, nextId, started, sysEvents, restarts, abortMemory>>

ReplyErrored == [kind |-> "error", parts |-> <<>>]

\* runEmbeddedPiAgent rejects: the turn ends with the error
ReplyAgentRejects(s) ==
  /\ turns[s].kind = "reply" /\ turns[s].pc = "agent"
  /\ Proceed(s, [reply |-> ReplyErrored, saved |-> FALSE], "done")
  /\ UNCHANGED <<now, nextId, started, sysEvents, restarts, abortMemory>>

\* runEmbeddedPiAgent resolves with result
ReplyAgentReturns(s, result) ==
  /\ turns[s].kind = "reply" /\ turns[s].pc = "agent"
  /\ Proceed(s, With(ReplyIntroSent(turns[s], now), [runResult |-> result]), "post")
  /\ UNCHANGED <<now, nextId, started, sysEvents, restarts, abortMemory>>

ReplyPostStep(s) ==
  /\ turns[s].kind = "reply" /\ turns[s].pc = "post"
  /\ Proceed(s, ReplyPost(turns[s], now), "done")
  /\ UNCHANGED <<now, nextId, started, sysEvents, restarts, abortMemory>>

-----------------------------------------------------------------------------
(* agentCommand (commands/agent.ts).  A session id is a positive number, 0 *)
(* an absent one.  The payloads are printed, and delivered when            *)
(* opts.deliver is set.                                                    *)

\* The freshness test of resolveSession with the edge of the window left out
CommandFreshStrict(hasEntry, entry, t, idleMs) == hasEntry /\ entry.updatedAt > t - idleMs

\* resolveSession: sessionEntry && sessionEntry.updatedAt >= now - idleMs
CommandFresh(hasEntry, entry, t, idleMs) == hasEntry /\ entry.updatedAt >= t - idleMs

\* The keys whose record carries the session id
KeysOfSession(st, sessionId) == {k \in DOMAIN st : st[k].sessionId = sessionId}

\* resolveSession, foundKey being what the search by session id found (NoText:
\* nothing, or no search)
resolveSession(cfg, to, optSessionId, persisted, t, uuid, foundKey) ==
  LET sessionStore == loadSessionStore(persisted)
      hasTo == to # NoText /\ Trim(to) # <<>>
      byId == foundKey # NoText
      Resolved(sessionKey, hasEntry, home, sessionEntry, fresh) ==
        [ sessionStore |-> sessionStore,
          sessionKey |-> sessionKey,
          hasEntry |-> hasEntry,
          sessionEntry |-> sessionEntry,
          homes |-> IF hasEntry THEN {home} ELSE {},
          fresh |-> fresh,
          sessionId |-> IF optSessionId # 0 THEN optSessionId
                        ELSE IF fresh THEN sessionEntry.sessionId ELSE uuid,
          usedUuid |-> optSessionId = 0 /\ ~fresh,
          isNewSession |-> ~fresh /\ optSessionId = 0,
          persistedThinking |-> IF fresh THEN sessionEntry.thinkingLevel ELSE None,
          persistedVerbose |-> IF fresh THEN sessionEntry.verboseLevel ELSE None ]
      Aged(sessionKey, hasEntry, home, sessionEntry) ==
        Resolved(sessionKey, hasEntry, home, sessionEntry,
                 CommandFresh(hasEntry, sessionEntry, t, IdleMs(cfg)))
      Held(sessionKey, hasEntry, home) ==
        Aged(sessionKey, hasEntry, home,
             IF hasEntry THEN sessionStore[home] ELSE NewEntry(0, 0))
      Keyed(derived) ==
        Held(IF hasTo THEN derived ELSE foundKey,
             byId \/ (hasTo /\ derived \in DOMAIN sessionStore),
             IF byId THEN foundKey ELSE derived)
  IN Keyed(resolveSessionKey(cfg.scope, to, MainKeyOf(cfg)))

\* The search of resolveSession by session id: the keys it may find
FoundKeys(cfg, to, optSessionId, persisted) ==
  LET hasTo == to # NoText /\ Trim(to) # <<>>
      keys == KeysOfSession(persisted, optSessionId)
      Search(derived) ==
        IF /\ optSessionId # 0
           /\ ~(hasTo /\ derived \in DOMAIN persisted
                /\ persisted[derived].sessionId = optSessionId)
           /\ keys # {}
        THEN keys ELSE {NoText}
  IN Search(resolveSessionKey(cfg.scope, to, MainKeyOf(cfg)))

\* The value of a decimal digit
DigitValue(c) == CHOOSE n \in 0..9 : <<"0","1","2","3","4","5","6","7","8","9">>[n + 1] = c

\* The digits a text starts with
RECURSIVE LeadingDigits(_)
LeadingDigits(s) ==
  IF s = <<>> \/ ~IsDigit(Head(s)) THEN <<>> ELSE <<Head(s)>> \o LeadingDigits(Tail(s))

\* The number a run of digits writes
RECURSIVE DigitsValue(_)
DigitsValue(ds) ==
  IF ds = <<>> THEN 0
  ELSE 10 * DigitsValue(SubSeq(ds, 1, Len(ds) - 1)) + DigitValue(ds[Len(ds)])

\* Number.parseInt(text, 10): white space, a sign, and the digits that follow, whatever
\* comes after them; NaN without a digit
parseInt(text) ==
  LET t == TrimStart(text)
      signed == t # <<>> /\ t[1] \in {"+", "-"}
      digits == LeadingDigits(IF signed THEN Tail(t) ELSE t)
  IN IF digits = <<>> THEN [isNaN |-> TRUE, value |-> 0]
     ELSE [isNaN |-> FALSE,
           value |-> IF t[1] = "-" THEN 0 - DigitsValue(digits) ELSE DigitsValue(digits)]

\* agentCfg?.timeoutSeconds ?? 600, the configuration setting none
DEFAULT_TIMEOUT_SECONDS == 600

\* timeoutSecondsRaw
TimeoutSecondsRaw(opts) ==
  IF opts.timeout # NoText THEN parseInt(opts.timeout)
  ELSE [isNaN |-> FALSE, value |-> DEFAULT_TIMEOUT_SECONDS]

\* The checks agentCommand throws on
CommandInvalid(opts) ==
  \/ Trim(opts.message) = <<>>
  \/ ~Truthy(opts.to) /\ opts.sessionId = 0
  \/ Truthy(opts.thinking) /\ normalizeThinkLevel(opts.thinking) = None
  \/ Truthy(opts.thinkingOnce) /\ normalizeThinkLevel(opts.thinkingOnce) = None
  \/ Truthy(opts.verbose) /\ normalizeVerboseLevel(opts.verbose) = None
  \/ TimeoutSecondsRaw(opts).isNaN
  \/ TimeoutSecondsRaw(opts).value <= 0

HasKey(t) == t.sessionKey # NoText

\* agentCommand, the skills snapshot written to the entry of a new session or of an
\* entry without one
CommandSnapshot(t, clock) ==
  LET needsSkillsSnapshot == t.isNewSession \/ ~(t.hasEntry /\ t.sessionEntry.skillsSnapshot)
      current == IF t.hasEntry THEN t.sessionEntry ELSE NewEntry(t.sessionId, clock)
      next == [current EXCEPT !.sessionId = t.sessionId, !.updatedAt = clock,
                              !.skillsSnapshot = TRUE]
      writes == needsSkillsSnapshot /\ HasKey(t)
  IN IF writes
     THEN [ sessionEntry |-> next, hasEntry |-> TRUE, homes |-> {t.sessionKey},
            sessionStore |-> Put(t.sessionStore, t.sessionKey, next), saved |-> TRUE,
            snapshotBuilt |-> TRUE ]
     ELSE [ sessionEntry |-> t.sessionEntry, hasEntry |-> t.hasEntry, homes |-> t.homes,
            sessionStore |-> t.sessionStore, saved |-> FALSE,
            snapshotBuilt |-> needsSkillsSnapshot ]

\* agentCommand, the --thinking and --verbose overrides written to the record of the
\* key; sessionEntry keeps the entry it held
CommandOverrides(t, clock) ==
  LET entry == IF t.sessionKey \in DOMAIN t.sessionStore THEN t.sessionStore[t.sessionKey]
               ELSE IF t.hasEntry THEN t.sessionEntry
               ELSE NewEntry(t.sessionId, clock)
      n0 == [entry EXCEPT !.sessionId = t.sessionId, !.updatedAt = clock]
      n1 == IF t.thinkOverride # None THEN SetThinking(n0, t.thinkOverride) ELSE n0
      next == IF t.verboseOverride # None THEN SetVerbose(n1, t.verboseOverride) ELSE n1
  IN IF HasKey(t)
     THEN [ sessionStore |-> Put(t.sessionStore, t.sessionKey, next),
            homes |-> t.homes \ {t.sessionKey}, saved |-> TRUE ]
     ELSE [ sessionStore |-> t.sessionStore, homes |-> t.homes, saved |-> FALSE ]

\* The entry object e written in place where the store holds it
Rewrite(st, homes, e) == [k \in DOMAIN st |-> IF k \in homes THEN e ELSE st[k]]

\* agentCommand, the model of the run: the stored override is dropped (and the store
\* saved) when the allowed models exclude it, else it replaces the default
CommandModel(t, clock) ==
  LET cfg == t.cfg
      entry == t.sessionEntry
      hasAllowlist == Len(cfg.allowedModels) > 0
      hasStoredOverride ==
        t.hasEntry /\ (Truthy(entry.modelOverride) \/ Truthy(entry.providerOverride))
      Applied(def, allowedModelKeys, storedProviderOverride, storedModelOverride) ==
        LET candidateProvider ==
              IF storedProviderOverride # <<>> THEN storedProviderOverride
              ELSE def.provider
            useStored ==
              /\ storedModelOverride # <<>>
              /\ \/ allowedModelKeys = {}
                 \/ modelKey(candidateProvider, storedModelOverride) \in allowedModelKeys
        IN [ provider |-> IF useStored THEN candidateProvider ELSE def.provider,
             model |-> IF useStored THEN storedModelOverride ELSE def.model ]
      Validated(def, allowedModelKeys, resets) ==
        LET entry2 ==
              IF resets
              THEN [entry EXCEPT !.providerOverride = NoText, !.modelOverride = NoText,
                                 !.updatedAt = clock]
              ELSE entry
        IN With([ sessionEntry |-> entry2,
                  sessionStore |->
                    IF resets
                    THEN Put(Rewrite(t.sessionStore, t.homes, entry2), t.sessionKey,
                             entry2)
                    ELSE t.sessionStore,
                  homes |-> IF resets THEN t.homes \cup {t.sessionKey} ELSE t.homes,
                  saved |-> resets ],
                Applied(def, allowedModelKeys,
                        IF t.hasEntry THEN TrimOrEmpty(entry2.providerOverride) ELSE <<>>,
                        IF t.hasEntry THEN TrimOrEmpty(entry2.modelOverride) ELSE <<>>))
      Stored(def, allowedModelKeys, overrideProvider, overrideModel) ==
        Validated(def, allowedModelKeys,
                  /\ hasStoredOverride /\ HasKey(t)
                  /\ overrideModel # <<>>
                  /\ allowedModelKeys # {}
                  /\ modelKey(IF overrideProvider # <<>> THEN overrideProvider
                              ELSE def.provider,
                              overrideModel) \notin allowedModelKeys)
      Allowed(def) ==
        Stored(def,
               IF hasAllowlist \/ hasStoredOverride
               THEN buildAllowedModelSet(cfg, loadModelCatalog(cfg),
                                         def.provider).allowedKeys
               ELSE {},
               TrimOrEmpty(entry.providerOverride), TrimOrEmpty(entry.modelOverride))
  IN Allowed(resolveConfiguredModelRef(cfg, DEFAULT_PROVIDER, DEFAULT_MODEL))

\* agentCommand after the run: model, usage and abortedLastRun written to the record
\* of the key
CommandPost(t, result, clock) ==
  LET modelUsed == IF result.model # NoText THEN result.model ELSE t.model
      entry == IF t.sessionKey \in DOMAIN t.sessionStore THEN t.sessionStore[t.sessionKey]
               ELSE NewEntry(t.sessionId, clock)
      n0 == [entry EXCEPT !.sessionId = t.sessionId, !.updatedAt = clock,
                          !.model = modelUsed, !.abortedLastRun = result.aborted]
      next == IF result.usage # NoUsage
              THEN [WithUsage(n0, result.usage, modelUsed, clock) EXCEPT
                      !.abortedLastRun = result.aborted]
              ELSE n0
  IN [ sessionStore |->
         IF HasKey(t) THEN Put(t.sessionStore, t.sessionKey, next) ELSE t.sessionStore,
       homes |-> t.homes \ {t.sessionKey},
       saved |-> HasKey(t),
       runResult |-> result,
       reply |-> [kind |-> "payloads", parts |-> result.payloads] ]

CommandErrored == [kind |-> "error", parts |-> <<>>]

D_whatsapp == <<"w","h","a","t","s","a","p","p">>
D_telegram == <<"t","e","l","e","g","r","a","m">>
D_webchat  == <<"w","e","b","c","h","a","t">>

\* routing.allowFrom, normalized, without the entries that hold no digit
NormalizedAllowFrom(cfg) ==
  SelectSeq([i \in DOMAIN cfg.allowFrom |-> normalizeE164(cfg.allowFrom[i])],
            LAMBDA val : Len(val) > 1)

\* chunkText(text, 4000) of a text within the limit: the text, or nothing when it
\* is empty
chunkText(text) == IF text = <<>> THEN <<>> ELSE <<text>>

\* The first send that fails, 0 when none does
FirstFailing(attempts, failing) ==
  IF failing \cap DOMAIN attempts = {} THEN 0
  ELSE CHOOSE i \in failing \cap DOMAIN attempts :
         \A j \in failing \cap DOMAIN attempts : i <= j

\* A delivery that throws on the first failure, bestEffortDeliver or not
CommandDeliverStrict(t, payloads, failing) ==
  LET deliver == t.opts.deliver
      bestEffortDeliver == FALSE
      Outcome(refused, attempts, first) ==
        LET thrown == ~bestEffortDeliver /\ (refused \/ first # 0)
            tried == IF refused /\ ~bestEffortDeliver THEN <<>>
                     ELSE IF first # 0 /\ ~bestEffortDeliver THEN SubSeq(attempts, 1, first)
                     ELSE attempts
        IN [ rejected |-> thrown,
             attempts |-> tried,
             failed |-> failing \cap DOMAIN tried,
             logged |-> IF ~bestEffortDeliver THEN 0
                        ELSE (IF refused THEN 1 ELSE 0)
                             + Cardinality(failing \cap DOMAIN attempts),
             reply |-> IF thrown THEN CommandErrored
                       ELSE [kind |-> "payloads", parts |-> payloads] ]
      Tried(refused, attempts) ==
        Outcome(refused, attempts, FirstFailing(attempts, failing))
      Sends(deliveryProvider, target, chunks) ==
        IF ~deliver \/ ~Truthy(target) THEN <<>>
        ELSE [i \in DOMAIN chunks |->
                [provider |-> deliveryProvider, to |-> target, text |-> chunks[i]]]
      Flat(deliveryProvider, target) ==
        LET RECURSIVE F(_)
            F(i) == IF i > Len(payloads) THEN <<>>
                    ELSE Sends(deliveryProvider, target, chunkText(payloads[i])) \o F(i + 1)
        IN F(1)
      Targeted(deliveryProvider, target) ==
        Tried(deliver /\ ~Truthy(target), Flat(deliveryProvider, target))
      Provided(deliveryProvider, whatsappTarget, telegramTarget) ==
        Targeted(deliveryProvider,
                 IF deliveryProvider = D_whatsapp THEN whatsappTarget
                 ELSE IF deliveryProvider = D_telegram THEN telegramTarget
                 ELSE NoText)
      First(allowFrom) == IF allowFrom # <<>> THEN allowFrom[1] ELSE NoText
  IN Provided(IF t.opts.provider # NoText THEN ToLower(t.opts.provider) ELSE D_whatsapp,
              IF Truthy(t.opts.to) THEN normalizeE164(t.opts.to)
              ELSE First(NormalizedAllowFrom(t.cfg)),
              IF t.opts.to # NoText /\ Trim(t.opts.to) # <<>> THEN Trim(t.opts.to)
              ELSE NoText)

\* agentCommand, the delivery of the payloads (opts.deliver): the sends it tries, the
\* errors it logs, and whether it throws.  failing: the sends that throw.
CommandDeliver(t, payloads, failing) ==
  LET deliver == t.opts.deliver
      bestEffortDeliver == t.opts.bestEffortDeliver
      Outcome(refused, attempts, first) ==
        LET thrown == ~bestEffortDeliver /\ (refused \/ first # 0)
            tried == IF refused /\ ~bestEffortDeliver THEN <<>>
                     ELSE IF first # 0 /\ ~bestEffortDeliver THEN SubSeq(attempts, 1, first)
                     ELSE attempts
        IN [ rejected |-> thrown,
             attempts |-> tried,
             failed |-> failing \cap DOMAIN tried,
             logged |-> IF ~bestEffortDeliver THEN 0
                        ELSE (IF refused THEN 1 ELSE 0)
                             + Cardinality(failing \cap DOMAIN attempts),
             reply |-> IF thrown THEN CommandErrored
                       ELSE [kind |-> "payloads", parts |-> payloads] ]
      Tried(refused, attempts) ==
        Outcome(refused, attempts, FirstFailing(attempts, failing))
      Sends(deliveryProvider, target, chunks) ==
        IF ~deliver \/ ~Truthy(target) THEN <<>>
        ELSE [i \in DOMAIN chunks |->
                [provider |-> deliveryProvider, to |-> target, text |-> chunks[i]]]
      Flat(deliveryProvider, target) ==
        LET RECURSIVE F(_)
            F(i) == IF i > Len(payloads) THEN <<>>
                    ELSE Sends(deliveryProvider, target, chunkText(payloads[i])) \o F(i + 1)
        IN F(1)
      Targeted(deliveryProvider, target) ==
        Tried(deliver /\ ~Truthy(target), Flat(deliveryProvider, target))
      Provided(deliveryProvider, whatsappTarget, telegramTarget) ==
        Targeted(deliveryProvider,
                 IF deliveryProvider = D_whatsapp THEN whatsappTarget
                 ELSE IF deliveryProvider = D_telegram THEN telegramTarget
                 ELSE NoText)
      First(allowFrom) == IF allowFrom # <<>> THEN allowFrom[1] ELSE NoText
  IN Provided(IF t.opts.provider # NoText THEN ToLower(t.opts.provider) ELSE D_whatsapp,
              IF Truthy(t.opts.to) THEN normalizeE164(t.opts.to)
              ELSE First(NormalizedAllowFrom(t.cfg)),
              IF t.opts.to # NoText /\ Trim(t.opts.to) # <<>> THEN Trim(t.opts.to)
              ELSE NoText)

\* The run agentCommand hands to the engine
CommandRun(t) ==
  [ sessionId |-> t.sessionId,
    sessionKey |-> t.sessionKey,
    prompt |-> Trim(t.opts.message),
    extraSystemPrompt |-> None,
    provider |-> t.provider,
    model |-> t.model,
    thinkLevel |-> t.resolvedThinkLevel,
    verboseLevel |-> t.resolvedVerboseLevel ]

\* agentCommand(opts) called with an option it rejects: it throws before it reads
\* the store
CommandThrowsStep(s, opts, cfg) ==
  /\ ~Active(s)
  /\ CommandInvalid(opts)
  /\ turns' = [turns EXCEPT ![s] =
                 With(Fresh("command", "done"),
                      [opts |-> opts, cfg |-> cfg, reply |-> CommandErrored])]
  /\ started' = started + 1
  /\ UNCHANGED <<store, now, nextId, sysEvents, restarts, abortMemory>>

\* agentCommand(opts) called: the session is resolved and the first write of the
\* turn saved (the skills snapshot, else the overrides)
CommandSessionStep(s, opts, cfg) ==
  /\ ~Active(s)
  /\ ~CommandInvalid(opts)
  /\ \E foundKey \in FoundKeys(cfg, opts.to, opts.sessionId, store) :
       LET Saved(r, t2) ==
             /\ turns' = [turns EXCEPT ![s] = t2]
             /\ store' = IF t2.saved THEN saveSessionStore(t2.sessionStore) ELSE store
             /\ nextId' = IF r.usedUuid THEN nextId + 1 ELSE nextId
           Written(r, t1) ==
             Saved(r, IF t1.saved THEN t1
                      ELSE With(With(t1, CommandOverrides(t1, now)), [pc |-> "model"]))
           Begun(r, t0) == Written(r, With(t0, CommandSnapshot(t0, now)))
           Levels(r, thinkOverride, thinkOnce, verboseOverride) ==
             Begun(r, With(With(Fresh("command", "overrides"),
                                [opts |-> opts, cfg |-> cfg]),
                           With(r, [ thinkOverride |-> thinkOverride,
                                     verboseOverride |-> verboseOverride,
                                     resolvedThinkLevel |->
                                       Coalesce(thinkOnce, Coalesce(thinkOverride,
                                         Coalesce(r.persistedThinking,
                                                  cfg.thinkingDefault))),
                                     resolvedVerboseLevel |->
                                       Coalesce(verboseOverride,
                                         Coalesce(r.persistedVerbose,
                                                  cfg.verboseDefault)) ])))
       IN Levels(resolveSession(cfg, opts.to, opts.sessionId, store, now, nextId,
                                foundKey),
                 normalizeThinkLevel(opts.thinking),
                 normalizeThinkLevel(opts.thinkingOnce),
                 normalizeVerboseLevel(opts.verbose))
  /\ started' = started + 1
  /\ UNCHANGED <<now, sysEvents, restarts, abortMemory>>

CommandOverridesStep(s) ==
  /\ turns[s].kind = "command" /\ turns[s].pc = "overrides"
  /\ Proceed(s, CommandOverrides(turns[s], now), "model")
  /\ UNCHANGED <<now, nextId, started, sysEvents, restarts, abortMemory>>

CommandModelStep(s) ==
  /\ turns[s].kind = "command" /\ turns[s].pc = "model"
  /\ Proceed(s, CommandModel(turns[s], now), "delegate")
  /\ UNCHANGED <<now, nextId, started, sysEvents, restarts, abortMemory>>

CommandRunStep(s) ==
  /\ turns[s].kind = "command" /\ turns[s].pc = "delegate"
  /\ Proceed(s, [run |-> CommandRun(turns[s]), delegated |-> TRUE, saved |-> FALSE], "agent")
  /\ UNCHANGED <<now, nextId, started, sysEvents, restarts, abortMemory>>

\* runEmbeddedPiAgent rejects: agentCommand rethrows
CommandAgentRejects(s) ==
  /\ turns[s].kind = "command" /\ turns[s].pc = "agent"
  /\ Proceed(s, [reply |-> CommandErrored, saved |-> FALSE], "done")
  /\ UNCHANGED <<now, nextId, started, sysEvents, restarts, abortMemory>>

\* runEmbeddedPiAgent returns: the record is updated and saved, then the payloads
\* are delivered, each send failing or not
CommandAgentReturns(s, result) ==
  /\ turns[s].kind = "command" /\ turns[s].pc = "agent"
  /\ \E failing \in SUBSET (1..Len(result.payloads)) :
       /\ failing = {} \/ turns[s].opts.deliver
       /\ Proceed(s, With(CommandPost(turns[s], result, now),
                          CommandDeliver(turns[s], result.payloads, failing)), "done")
  /\ UNCHANGED <<now, nextId, started, sysEvents, restarts, abortMemory>>

-----------------------------------------------------------------------------
(* runCronIsolatedAgentTurn (cron/isolated-agent.ts).                      *)

\* resolveCronSession: entry && nowMs - entry.updatedAt <= idleMs
CronFresh(st, key, nowMs, idleMs) == key \in DOMAIN st /\ nowMs - st[key].updatedAt <= idleMs

\* resolveCronSession: the entry of the turn is built anew from the fields it names
resolveCronSession(cfg, sessionKey, nowMs, persisted, uuid) ==
  LET st == loadSessionStore(persisted)
      fresh == CronFresh(st, sessionKey, nowMs, IdleMs(cfg))
      has == sessionKey \in DOMAIN st
      entry == st[sessionKey]
      sessionId == IF fresh THEN entry.sessionId ELSE uuid
      systemSent == IF fresh THEN entry.systemSent ELSE FALSE
      sessionEntry ==
        [NewEntry(sessionId, nowMs) EXCEPT
           !.systemSent = systemSent,
           !.thinkingLevel = IF has THEN entry.thinkingLevel ELSE None,
           !.verboseLevel = IF has THEN entry.verboseLevel ELSE None,
           !.model = IF has THEN entry.model ELSE NoText,
           !.lastChannel = IF has THEN entry.lastChannel ELSE None,
           !.lastTo = IF has THEN entry.lastTo ELSE NoText]
  IN [ sessionStore |-> st, sessionEntry |-> sessionEntry, sessionId |-> sessionId,
       systemSent |-> systemSent, fresh |-> fresh, isNewSession |-> ~fresh ]

\* runCronIsolatedAgentTurn, the skills snapshot written to the entry
CronSnapshot(t, clock) ==
  LET needsSkillsSnapshot == t.isNewSession \/ ~t.sessionEntry.skillsSnapshot
      entry == [t.sessionEntry EXCEPT !.updatedAt = clock, !.skillsSnapshot = TRUE]
  IN [ sessionEntry |-> IF needsSkillsSnapshot THEN entry ELSE t.sessionEntry,
       sessionStore |->
         IF needsSkillsSnapshot THEN Put(t.sessionStore, t.sessionKey, entry)
         ELSE t.sessionStore,
       snapshotBuilt |-> needsSkillsSnapshot,
       saved |-> needsSkillsSnapshot ]

\* runCronIsolatedAgentTurn, the entry saved before the run, with systemSent set on
\* the first turn of a session
CronSystemSent(t) ==
  LET isFirstTurnInSession == t.isNewSession \/ ~t.systemSent
      entry == IF isFirstTurnInSession THEN [t.sessionEntry EXCEPT !.systemSent = TRUE]
               ELSE t.sessionEntry
  IN [ sessionEntry |-> entry,
       sessionStore |-> Put(t.sessionStore, t.sessionKey, entry),
       saved |-> TRUE ]

\* The run the cron turn hands to the engine
CronRun(t) ==
  LET Run(def) ==
        [ sessionId |-> t.sessionEntry.sessionId,
          sessionKey |-> t.sessionKey,
          prompt |-> Trim(<<"[cron:job]", " ">> \o t.message),
          extraSystemPrompt |-> None,
          provider |-> def.provider,
          model |-> def.model,
          thinkLevel |-> Coalesce(t.jobThink, t.cfg.thinkingDefault),
          verboseLevel |-> Coalesce(t.sessionEntry.verboseLevel, t.cfg.verboseDefault) ]
  IN Run(resolveConfiguredModelRef(t.cfg, DEFAULT_PROVIDER, DEFAULT_MODEL))

\* runCronIsolatedAgentTurn after the run: model and usage written to the entry
CronPost(t, result) ==
  LET modelUsed == IF result.model # NoText THEN result.model ELSE t.run.model
      e0 == [t.sessionEntry EXCEPT !.model = modelUsed]
      entry == IF result.usage # NoUsage
               THEN [WithUsage(e0, result.usage, modelUsed, 0) EXCEPT
                       !.updatedAt = e0.updatedAt]
               ELSE e0
  IN [ sessionEntry |-> entry,
       sessionStore |-> Put(t.sessionStore, t.sessionKey, entry),
       saved |-> TRUE,
       runResult |-> result,
       reply |-> [kind |-> "payloads", parts |-> result.payloads] ]

\* A target that is the number asked for, listed or not
resolveDeliveryTargetAsAsked(cfg, jobPayload, persisted) ==
  LET Listed(allowFrom, normalized) ==
        normalized
      Sanitized(to, rawAllow, allowFrom) ==
        IF \E i \in DOMAIN rawAllow : rawAllow[i] = <<"*">> THEN to
        ELSE IF allowFrom = <<>> THEN to
        ELSE IF ~Truthy(to) THEN allowFrom[1]
        ELSE Listed(allowFrom, normalizeE164(to))
      Target(channel, to) ==
        [ channel |-> channel,
          to |-> IF channel = "whatsapp"
                 THEN Sanitized(to, cfg.allowFrom, NormalizedAllowFrom(cfg))
                 ELSE to ]
      Chosen(requestedChannel, explicitTo, lastChannel, lastTo) ==
        Target(IF requestedChannel \in {"whatsapp", "telegram"} THEN requestedChannel
               ELSE Coalesce(lastChannel, "whatsapp"),
               IF explicitTo # NoText THEN explicitTo
               ELSE IF lastTo # <<>> THEN lastTo ELSE NoText)
      Last(requestedChannel, explicitTo, main) ==
        Chosen(requestedChannel, explicitTo,
               IF main.lastChannel \notin {None, "webchat"} THEN main.lastChannel ELSE None,
               IF main.lastTo # NoText THEN Trim(main.lastTo) ELSE <<>>)
      Main(st, mainKey) ==
        Last(IF jobPayload.channel # None THEN jobPayload.channel ELSE "last",
             IF jobPayload.to # NoText /\ Trim(jobPayload.to) # <<>>
             THEN Trim(jobPayload.to) ELSE NoText,
             IF mainKey \in DOMAIN st THEN st[mainKey] ELSE NewEntry(0, 0))
      Keyed(trimmedKey) ==
        Main(loadSessionStore(persisted),
             IF trimmedKey = <<>> THEN MainKeyDefault ELSE trimmedKey)
  IN Keyed(IF cfg.mainKey = NoText THEN MainKeyDefault ELSE Trim(cfg.mainKey))

\* resolveDeliveryTarget: the channel and the recipient of the delivery of a job; a
\* WhatsApp recipient is taken from routing.allowFrom when the list names numbers
resolveDeliveryTarget(cfg, jobPayload, persisted) ==
  LET Listed(allowFrom, normalized) ==
        IF \E i \in DOMAIN allowFrom : allowFrom[i] = normalized THEN normalized
        ELSE allowFrom[1]
      Sanitized(to, rawAllow, allowFrom) ==
        IF \E i \in DOMAIN rawAllow : rawAllow[i] = <<"*">> THEN to
        ELSE IF allowFrom = <<>> THEN to
        ELSE IF ~Truthy(to) THEN allowFrom[1]
        ELSE Listed(allowFrom, normalizeE164(to))
      Target(channel, to) ==
        [ channel |-> channel,
          to |-> IF channel = "whatsapp"
                 THEN Sanitized(to, cfg.allowFrom, NormalizedAllowFrom(cfg))
                 ELSE to ]
      Chosen(requestedChannel, explicitTo, lastChannel, lastTo) ==
        Target(IF requestedChannel \in {"whatsapp", "telegram"} THEN requestedChannel
               ELSE Coalesce(lastChannel, "whatsapp"),
               IF explicitTo # NoText THEN explicitTo
               ELSE IF lastTo # <<>> THEN lastTo ELSE NoText)
      Last(requestedChannel, explicitTo, main) ==
        Chosen(requestedChannel, explicitTo,
               IF main.lastChannel \notin {None, "webchat"} THEN main.lastChannel ELSE None,
               IF main.lastTo # NoText THEN Trim(main.lastTo) ELSE <<>>)
      Main(st, mainKey) ==
        Last(IF jobPayload.channel # None THEN jobPayload.channel ELSE "last",
             IF jobPayload.to # NoText /\ Trim(jobPayload.to) # <<>>
             THEN Trim(jobPayload.to) ELSE NoText,
             IF mainKey \in DOMAIN st THEN st[mainKey] ELSE NewEntry(0, 0))
      Keyed(trimmedKey) ==
        Main(loadSessionStore(persisted),
             IF trimmedKey = <<>> THEN MainKeyDefault ELSE trimmedKey)
  IN Keyed(IF cfg.mainKey = NoText THEN MainKeyDefault ELSE Trim(cfg.mainKey))

\* A delivery that returns "ok" whatever the sends did
CronDeliverLenient(t, payloads, failing) ==
  LET channel == t.resolvedDelivery.channel
      to == t.resolvedDelivery.to
      Sends(text) ==
        IF channel = "whatsapp"
        THEN << [provider |-> D_whatsapp, to |-> normalizeE164(to), text |-> text] >>
        ELSE [i \in DOMAIN chunkText(text) |->
                [provider |-> D_telegram, to |-> to, text |-> chunkText(text)[i]]]
      Flat(ps) ==
        LET RECURSIVE F(_)
            F(i) == IF i > Len(ps) THEN <<>> ELSE Sends(ps[i]) \o F(i + 1)
        IN F(1)
      Outcome(attempts, first) ==
        [ status |->
            IF ~t.delivery \/ channel \notin {"whatsapp", "telegram"} THEN "ok"
            ELSE IF ~Truthy(to) THEN (IF t.bestEffortDeliver THEN "skipped" ELSE "error")
            ELSE "ok",
          attempts |->
            IF ~t.delivery \/ channel \notin {"whatsapp", "telegram"} \/ ~Truthy(to)
            THEN <<>>
            ELSE IF first # 0 THEN SubSeq(attempts, 1, first)
            ELSE attempts,
          failed |-> IF first # 0 THEN {first} ELSE {} ]
      Tried(attempts) == Outcome(attempts, FirstFailing(attempts, failing))
  IN Tried(IF t.delivery /\ Truthy(to) THEN Flat(payloads) ELSE <<>>)

\* runCronIsolatedAgentTurn, the delivery of the payloads (payload.deliver): the
\* sends it makes and the status it returns.  failing: the sends that throw.
CronDeliver(t, payloads, failing) ==
  LET channel == t.resolvedDelivery.channel
      to == t.resolvedDelivery.to
      Sends(text) ==
        IF channel = "whatsapp"
        THEN << [provider |-> D_whatsapp, to |-> normalizeE164(to), text |-> text] >>
        ELSE [i \in DOMAIN chunkText(text) |->
                [provider |-> D_telegram, to |-> to, text |-> chunkText(text)[i]]]
      Flat(ps) ==
        LET RECURSIVE F(_)
            F(i) == IF i > Len(ps) THEN <<>> ELSE Sends(ps[i]) \o F(i + 1)
        IN F(1)
      Outcome(attempts, first) ==
        [ status |->
            IF ~t.delivery \/ channel \notin {"whatsapp", "telegram"} THEN "ok"
            ELSE IF ~Truthy(to) THEN (IF t.bestEffortDeliver THEN "skipped" ELSE "error")
            ELSE IF first # 0 /\ ~t.bestEffortDeliver THEN "error"
            ELSE "ok",
          attempts |->
            IF ~t.delivery \/ channel \notin {"whatsapp", "telegram"} \/ ~Truthy(to)
            THEN <<>>
            ELSE IF first # 0 THEN SubSeq(attempts, 1, first)
            ELSE attempts,
          failed |-> IF first # 0 THEN {first} ELSE {} ]
      Tried(attempts) == Outcome(attempts, FirstFailing(attempts, failing))
  IN Tried(IF t.delivery /\ Truthy(to) THEN Flat(payloads) ELSE <<>>)

\* runCronIsolatedAgentTurn called: the session of the job is resolved and the
\* first write of the turn saved
CronSessionStep(s, job, cfg) ==
  /\ ~Active(s)
  /\ LET Saved(r, t2) ==
           /\ turns' = [turns EXCEPT ![s] = t2]
           /\ store' = saveSessionStore(t2.sessionStore)
           /\ nextId' = IF r.fresh THEN nextId ELSE nextId + 1
         Written(r, t1) ==
           Saved(r, IF t1.saved THEN t1
                    ELSE With(With(t1, CronSystemSent(t1)), [pc |-> "delegate"]))
         Begun(r, t0) == Written(r, With(t0, CronSnapshot(t0, now)))
         Resolved(r) ==
           Begun(r, With(With(Fresh("cron", "systemSent"),
                              [cfg |-> cfg, sessionKey |-> job.sessionKey,
                               message |-> job.message, jobThink |-> job.thinking,
                               delivery |-> job.deliver,
                               bestEffortDeliver |-> job.bestEffortDeliver,
                               resolvedDelivery |->
                                 resolveDeliveryTarget(cfg, job, store)]), r))
     IN Resolved(resolveCronSession(cfg, job.sessionKey, now, store, nextId))
  /\ started' = started + 1
  /\ UNCHANGED <<now, sysEvents, restarts, abortMemory>>

CronSystemSentStep(s) ==
  /\ turns[s].kind = "cron" /\ turns[s].pc = "systemSent"
  /\ Proceed(s, CronSystemSent(turns[s]), "delegate")
  /\ UNCHANGED <<now, nextId, started, sysEvents, restarts, abortMemory>>

CronRunStep(s) ==
  /\ turns[s].kind = "cron" /\ turns[s].pc = "delegate"
  /\ Proceed(s, [run |-> CronRun(turns[s]), delegated |-> TRUE, saved |-> FALSE], "agent")
  /\ UNCHANGED <<now, nextId, started, sysEvents, restarts, abortMemory>>

CronErrored == [kind |-> "error", parts |-> <<>>]

\* runEmbeddedPiAgent rejects: the turn returns status "error"
CronAgentRejects(s) ==
  /\ turns[s].kind = "cron" /\ turns[s].pc = "agent"
  /\ Proceed(s, [reply |-> CronErrored, saved |-> FALSE, status |-> "error",
                 attempts |-> <<>>, failed |-> {}], "done")
  /\ UNCHANGED <<now, nextId, started, sysEvents, restarts, abortMemory>>

\* runEmbeddedPiAgent returns: the entry is updated and saved, then the payloads
\* are delivered, each send failing or not
CronAgentReturns(s, result) ==
  /\ turns[s].kind = "cron" /\ turns[s].pc = "agent"
  /\ \E failing \in SUBSET (1..Len(result.payloads)) :
       /\ failing = {} \/ turns[s].delivery
       /\ Proceed(s, With(CronPost(turns[s], result),
                          CronDeliver(turns[s], result.payloads, failing)), "done")
  /\ UNCHANGED <<now, nextId, started, sysEvents, restarts, abortMemory>>

-----------------------------------------------------------------------------
(* The inputs: message bodies, addresses, configurations, agent results.   *)

B_hi == <<"h","i">>
B_think_high == <<"/","t","h","i","n","k"," ","h","i","g","h">>
B_think_off == <<"/","t","h","i","n","k"," ","o","f","f">>
B_think_loud == <<"/","t","h","i","n","k"," ","l","o","u","d">>
B_verbose_on == <<"/","v","e","r","b","o","s","e"," ","o","n">>
B_both == <<"/","t"," ","l","o","w"," ","/","v"," ","o","f","f">>
B_model == <<"/","m","o","d","e","l">>
B_model_opus == <<"/","m","o","d","e","l"," ","o","p","u","s">>
B_model_haiku == <<"/","m","o","d","e","l"," ","h","a","i","k","u">>
B_model_gpt == <<"/","m","o","d","e","l"," ","o","p","e","n","a","i","/","g","p","t">>
B_model_zed == <<"/","m","o","d","e","l"," ","z","e","d">>
B_loud_haiku == <<"/","t","h","i","n","k"," ","l","o","u","d"," ","/","m","o","d","e","l"," ","h","a","i","k","u">>
B_think_hi == <<"/","t","h","i","n","k"," ","h","i","g","h"," ","h","i">>
B_haiku_hi == <<"/","m","o","d","e","l"," ","h","a","i","k","u"," ","h","i">>
B_opus_hi == <<"h","i"," ","/","m","o","d","e","l"," ","o","p","u","s">>
B_zed_hi == <<"/","m","o","d","e","l"," ","z","e","d"," ","h","i">>
B_stamped_think == <<"[","D","e","c"," ","4","]"," ","/","t","h","i","n","k"," ","h","i","g","h">>
B_stop == <<"s","t","o","p">>
B_Stop == <<"S","t","o","p"," ">>
B_exit == <<"e","x","i","t">>
B_new == <<"/","n","e","w">>
B_reset == <<"/","r","e","s","e","t">>
B_new_hi == <<"/","n","e","w"," ","h","i">>
B_restart == <<"/","r","e","s","t","a","r","t">>
B_status == <<"/","s","t","a","t","u","s">>
B_activation == <<"/","a","c","t","i","v","a","t","i","o","n">>
B_always == <<"/","a","c","t","i","v","a","t","i","o","n"," ","a","l","w","a","y","s">>
B_self_always == <<"+","9"," ","/","a","c","t","i","v","a","t","i","o","n"," ","a","l","w","a","y","s">>
B_self_think == <<"+","9"," ","/","t","h","i","n","k"," ","h","i","g","h">>
B_high_hi == <<"h","i","g","h"," ","h","i">>
B_empty == <<>>

Owner    == <<"+","1">>
Stranger == <<"+","2">>
Self     == <<"+","9">>
Group    == <<"1","@","g",".","u","s">>

M_haiku == <<"h","a","i","k","u">>
M_gpt   == <<"g","p","t">>
M_zed   == <<"z","e","d">>
P_openai == <<"o","p","e","n","a","i">>

\* A direct message from a sender, and a group message a participant sent
Direct(from, body) ==
  [From |-> from, To |-> Self, SenderE164 |-> from, ChatType |-> None, Body |-> body]

InGroup(sender, body) ==
  [From |-> Group, To |-> Self, SenderE164 |-> sender, ChatType |-> "group", Body |-> body]

OwnerBodies ==
  { B_hi, B_think_high, B_think_off, B_think_loud, B_verbose_on, B_both, B_model,
    B_model_opus, B_model_haiku, B_model_gpt, B_model_zed, B_loud_haiku, B_think_hi,
    B_haiku_hi, B_opus_hi, B_zed_hi, B_stamped_think, B_stop, B_Stop, B_exit, B_new,
    B_reset,
    B_new_hi, B_restart, B_status, B_activation, B_high_hi, B_empty }

StrangerBodies == { B_hi, B_think_high, B_model_haiku, B_haiku_hi, B_stop, B_new, B_restart }

GroupBodies ==
  { B_hi, B_think_high, B_self_think, B_stop, B_new, B_restart, B_status, B_activation,
    B_always, B_self_always }

Messages ==
  {Direct(Owner, b) : b \in OwnerBodies}
    \cup {Direct(Stranger, b) : b \in StrangerBodies}
    \cup {InGroup(sender, b) : sender \in {Owner, Stranger}, b \in GroupBodies}

Catalog ==
  << [provider |-> DEFAULT_PROVIDER, id |-> DEFAULT_MODEL],
     [provider |-> DEFAULT_PROVIDER, id |-> M_haiku],
     [provider |-> P_openai, id |-> M_gpt] >>

\* routing.allowFrom names the owner; everything else is left to its default
OwnerConfig ==
  [ agentProvider |-> NoText, agentModel |-> NoText, allowedModels |-> <<>>,
    catalog |-> Catalog, thinkingDefault |-> None, verboseDefault |-> None,
    scope |-> "per-sender", idleMinutes |-> <<>>, resetTriggers |-> <<>>,
    mainKey |-> NoText, allowFrom |-> <<Owner>>, requireMention |-> None,
    mentionPatterns |-> <<>>, providerSummary |-> <<>> ]

\* No allowFrom: only the own number may write
SelfOnlyConfig == [OwnerConfig EXCEPT !.allowFrom = <<>>]

\* Anyone may write, one shared session, the shortest idle window
SharedConfig ==
  [OwnerConfig EXCEPT !.allowFrom = << <<"*">> >>, !.scope = "global",
                      !.idleMinutes = <<0>>,
                      !.providerSummary = << <<"WhatsApp: linked">> >>]

\* An allow-list that leaves out the default model
AllowlistConfig ==
  [OwnerConfig EXCEPT !.allowedModels = <<M_haiku, P_openai \o <<"/">> \o M_gpt>>,
                      !.idleMinutes = <<1>>]

\* An allow-list none of whose entries is in the catalog
UnknownAllowlistConfig == [OwnerConfig EXCEPT !.allowedModels = <<M_zed>>]

Configs ==
  {OwnerConfig, SelfOnlyConfig, SharedConfig, AllowlistConfig, UnknownAllowlistConfig}

Usage == [input |-> 3, output |-> 2, cacheRead |-> 1, cacheWrite |-> -1, total |-> 6]

\* What runEmbeddedPiAgent may resolve with
Results ==
  { [payloads |-> << <<"reply">> >>, usage |-> Usage, model |-> NoText, aborted |-> FALSE],
    [payloads |-> << <<"reply">> >>, usage |-> NoUsage, model |-> M_haiku, aborted |-> FALSE],
    [payloads |-> <<>>, usage |-> Usage, model |-> NoText, aborted |-> TRUE] }

\* The system events other parts of the gateway enqueue
EventLines == { <<"Node: connected">>, <<"heartbeat">> }

MaxTurns == 2
MaxTicks == 1
MaxEvents == 1

-----------------------------------------------------------------------------
(* Specifications.                                                         *)

Init ==
  /\ store = << >>
  /\ now = 0
  /\ nextId = 1
  /\ turns = [s \in Slots |-> Idle]
  /\ started = 0
  /\ sysEvents = <<>>
  /\ restarts = 0
  /\ abortMemory = << >>
  /\ ticks = 0

Tick(d) ==
  /\ ticks < MaxTicks
  /\ now' = now + d
  /\ ticks' = ticks + 1
  /\ UNCHANGED <<store, nextId, turns, started, sysEvents, restarts, abortMemory>>

\* infra/system-events.enqueueSystemEvent
EnqueueSystemEvent(line) ==
  /\ Len(sysEvents) < MaxEvents
  /\ sysEvents' = Append(sysEvents, line)
  /\ UNCHANGED <<store, now, nextId, turns, started, restarts, abortMemory, ticks>>

\* No turn is under way
Quiet == \A s \in Slots : ~Active(s)

\* The steps a turn takes once it has started
TurnStep(s) ==
  \/ ReplyDirectivesStep(s)
  \/ ReplyDirectiveOnlyStep(s)
  \/ ReplyInlineStep(s)
  \/ ReplyCommandsStep(s)
  \/ ReplyPromptStep(s)
  \/ ReplyContextStep(s)
  \/ ReplyRunStep(s)
  \/ ReplyAgentRejects(s)
  \/ \E result \in Results : ReplyAgentReturns(s, result)
  \/ ReplyPostStep(s)

\* One message at a time: a turn starts when the one before has ended, and the
\* clock is read between turns, a little after the shortest idle window has passed
Next ==
  \/ /\ Quiet
     /\ started < MaxTurns
     /\ \E ctx \in Messages, cfg \in Configs : ReplySessionStep(1, ctx, cfg)
     /\ UNCHANGED ticks
  \/ TurnStep(1) /\ UNCHANGED ticks
  \/ Quiet /\ Tick(IdleMs(SharedConfig) + 1)

Spec == Init /\ [][Next]_vars

-----------------------------------------------------------------------------
(* The three entry points at the edge of the idle window: each finds a     *)
(* record of its own key, last updated at the same time.                   *)

OwnerKey    == resolveSessionKey("per-sender", Owner, MainKeyDefault)
StrangerKey == resolveSessionKey("per-sender", Stranger, MainKeyDefault)
CronKey     == <<"c","r","o","n",":","1">>

\* The configurations of the idle window: unset, 0, 1 and 2 minutes
WindowConfigs == {[OwnerConfig EXCEPT !.idleMinutes = m] : m \in {<<>>, <<0>>, <<1>>, <<2>>}}

MaxStamp == 1

\* A command line that names its session by the recipient
Command(to, message) ==
  [ message |-> message, to |-> to, sessionId |-> 0, thinking |-> NoText,
    thinkingOnce |-> NoText, verbose |-> NoText, timeout |-> NoText,
    deliver |-> FALSE, bestEffortDeliver |-> FALSE, provider |-> NoText ]

Job(sessionKey, message) ==
  [ sessionKey |-> sessionKey, message |-> message, thinking |-> None,
    deliver |-> FALSE, bestEffortDeliver |-> FALSE, channel |-> None, to |-> NoText ]

InitFresh ==
  /\ \E stamp \in 0..MaxStamp :
       /\ store = [k \in {OwnerKey, StrangerKey, CronKey} |->
                     NewEntry(IF k = OwnerKey THEN 1 ELSE IF k = StrangerKey THEN 2 ELSE 3,
                              stamp)]
       /\ \E cfg \in WindowConfigs, edge \in {-1, 0, 1} : now = stamp + IdleMs(cfg) + edge
  /\ nextId = 4
  /\ turns = [s \in Slots |-> Idle]
  /\ started = 0
  /\ sysEvents = <<>>
  /\ restarts = 0
  /\ abortMemory = << >>
  /\ ticks = 0

NextFresh ==
  \/ \E cfg \in WindowConfigs : ReplySessionStep(1, Direct(Owner, B_hi), cfg) /\ UNCHANGED ticks
  \/ \E cfg \in WindowConfigs :
       CommandSessionStep(2, Command(Stranger, B_hi), cfg) /\ UNCHANGED ticks
  \/ \E cfg \in WindowConfigs : CronSessionStep(3, Job(CronKey, B_hi), cfg) /\ UNCHANGED ticks
  \/ Tick(1)

SpecFresh == InitFresh /\ [][NextFresh]_vars

-----------------------------------------------------------------------------
(* Properties.                                                             *)

\* The turn found a record under its key when it started
Observed(t) ==
  /\ t.kind \in {"reply", "command", "cron"}
  /\ "sessionKey" \in DOMAIN t
  /\ t.sessionKey \in DOMAIN t.startStore

\* The freshness verdict the turn reached, the time T of the record it judged and
\* the idle window W of its configuration, in ms
Verdict(t) == IF t.kind = "reply" THEN t.freshEntry ELSE t.fresh
StampOf(t) == t.startStore[t.sessionKey].updatedAt
WindowOf(t) ==
  LET minutes == IF t.cfg.idleMinutes = <<>> THEN 60 ELSE t.cfg.idleMinutes[1]
  IN (IF minutes < 1 THEN 1 ELSE minutes) * 60 * 1000

\* C1: in getReplyFromConfig, resolveSession and resolveCronSession a record updated
\* at T is fresh when the clock reads T+W and stale when it reads T+W+1, W being
\* max(idleMinutes, 1) minutes, and two entry points that judge the same (T, now, W)
\* reach the same verdict.
C1_FreshAtEdge ==
  \A s \in Slots :
    Observed(turns[s]) =>
      LET t == turns[s]
      IN /\ t.startedAt = StampOf(t) + WindowOf(t) => Verdict(t)
         /\ t.startedAt = StampOf(t) + WindowOf(t) + 1 => ~Verdict(t)
         /\ \A o \in Slots :
              ( /\ Observed(turns[o])
                /\ StampOf(turns[o]) = StampOf(t)
                /\ turns[o].startedAt = t.startedAt
                /\ WindowOf(turns[o]) = WindowOf(t) )
              => Verdict(turns[o]) = Verdict(t)

\* The three entry points have each judged a record: one at T+W found it fresh, one
\* at T+W+1 found it stale
C1_EdgesReached ==
  /\ \A s \in Slots : Observed(turns[s])
  /\ {turns[s].kind : s \in Slots} = {"reply", "command", "cron"}
  /\ \E s \in Slots :
       turns[s].startedAt = StampOf(turns[s]) + WindowOf(turns[s]) /\ Verdict(turns[s])
  /\ \E s \in Slots :
       turns[s].startedAt = StampOf(turns[s]) + WindowOf(turns[s]) + 1 /\ ~Verdict(turns[s])


-----------------------------------------------------------------------------
(* Interactive turns, one message at a time (Spec).  The turn that ended   *)
(* last is kept in slot 1 with the store it started from.                  *)

\* A turn of getReplyFromConfig has ended
Ended == turns[1].kind = "reply" /\ turns[1].pc = "done"

\* The turn found a record of its key that was still inside the idle window
FoundFresh(t) ==
  /\ t.sessionKey \in DOMAIN t.startStore
  /\ t.freshEntry
  /\ ~t.isNewSession

\* The sender of a direct message passes routing.allowFrom; a group message does
PermittedSender(ctx, cfg) ==
  LET allowFrom == IF cfg.allowFrom = <<>> THEN {ctx.To}
                   ELSE {cfg.allowFrom[i] : i \in DOMAIN cfg.allowFrom}
  IN \/ ctx.ChatType = "group"
     \/ ctx.From = ctx.To
     \/ <<"*">> \in allowFrom
     \/ ctx.From \in allowFrom

\* The thinking level, the verbose level and the model a directive-only body names
\* ("keep" where it names none, None where it switches the level off)
ThinkNamed(body) ==
  CASE body \in {B_think_high, B_stamped_think, B_self_think} -> "high"
    [] body = B_both -> "low"
    [] body = B_think_off -> None
    [] OTHER -> "keep"

VerboseNamed(body) ==
  CASE body = B_verbose_on -> "on"
    [] body = B_both -> None
    [] OTHER -> "keep"

ModelNamed(body) ==
  CASE body \in {B_model_haiku, B_haiku_hi} -> [provider |-> DEFAULT_PROVIDER, model |-> M_haiku]
    [] body = B_model_gpt -> [provider |-> P_openai, model |-> M_gpt]
    [] body \in {B_model_opus, B_opus_hi} -> [provider |-> DEFAULT_PROVIDER, model |-> DEFAULT_MODEL]
    [] body \in {B_model_zed, B_zed_hi} -> [provider |-> DEFAULT_PROVIDER, model |-> M_zed]
    [] OTHER -> NoRef

DirectiveOnlyBodies ==
  { B_think_high, B_stamped_think, B_self_think, B_both, B_think_off, B_verbose_on,
    B_model_haiku, B_model_gpt, B_model_opus }

\* The pair is one the configuration lets a session select
Selectable(cfg, ref) ==
  modelKey(ref.provider, ref.model)
    \in buildAllowedModelSet(cfg, cfg.catalog, DEFAULT_PROVIDER).allowedKeys

IsDefaultRef(ref) == ref.provider = DEFAULT_PROVIDER /\ ref.model = DEFAULT_MODEL

AckHeads ==
  { "Thinking disabled.", "Thinking level set to", "Verbose logging disabled.",
    "Verbose logging enabled.", "Model reset to default", "Model set to" }

\* C2: a message made only of a valid /think, /verbose or /model directive, arriving
\* for a record that is still fresh, stores the value the directive names (a level
\* of off removes the field, the default model removes the override), answers
\* with an acknowledgement text and hands nothing to the agent, neither as a run
\* nor as a queued message.
C2_DirectiveOnlyStored ==
  LET t == turns[1]
      Holds(b, r) ==
        /\ ThinkNamed(b) # "keep" => r.thinkingLevel = ThinkNamed(b)
        /\ VerboseNamed(b) # "keep" => r.verboseLevel = VerboseNamed(b)
        /\ ModelNamed(b) # NoRef =>
              IF IsDefaultRef(ModelNamed(b))
              THEN r.providerOverride = NoText /\ r.modelOverride = NoText
              ELSE /\ r.providerOverride = ModelNamed(b).provider
                   /\ r.modelOverride = ModelNamed(b).model
        /\ t.reply.kind = "text"
        /\ t.reply.parts # <<>>
        /\ \A i \in DOMAIN t.reply.parts : t.reply.parts[i][1] \in AckHeads
        /\ ~t.delegated
        /\ ~t.queued
  IN ( /\ Ended
       /\ FoundFresh(t)
       /\ t.ctx.Body \in DirectiveOnlyBodies
       /\ ModelNamed(t.ctx.Body) # NoRef => Selectable(t.cfg, ModelNamed(t.ctx.Body)) )
     => Holds(t.ctx.Body, store[t.sessionKey])

\* "/think off" removed the level an earlier "/think high" had stored
C2_LevelRemoved ==
  /\ Ended
  /\ FoundFresh(turns[1])
  /\ turns[1].ctx.Body = B_think_off
  /\ turns[1].startStore[turns[1].sessionKey].thinkingLevel = "high"
  /\ store[turns[1].sessionKey].thinkingLevel = None
  /\ turns[1].reply = TextReply(<< <<"Thinking disabled.">> >>)


\* The abort keywords, and the bodies that are one of them once trimmed and lowered
AbortKeywords ==
  { <<"s","t","o","p">>, <<"e","s","c">>, <<"a","b","o","r","t">>,
    <<"w","a","i","t">>, <<"e","x","i","t">> }

IsAbortBody(body) == ToLower(Trim(body)) \in AbortKeywords

\* The turn set abortedLastRun on the record, answered with the fixed abort
\* acknowledgement and handed nothing to the agent
AbortHandled(t) ==
  /\ store[t.sessionKey].abortedLastRun
  /\ t.reply = TextReply(<< <<"Agent was aborted.">> >>)
  /\ ~t.delegated
  /\ ~t.queued

\* C3 as stated: every message whose normalized body is an abort keyword, arriving
\* while a record exists for its key, sets abortedLastRun, is answered with the
\* abort acknowledgement and is not handed to the agent.
C3_AbortAlways ==
  ( /\ Ended
    /\ turns[1].sessionKey \in DOMAIN turns[1].startStore
    /\ IsAbortBody(turns[1].ctx.Body) )
  => AbortHandled(turns[1])

\* C3: a message whose normalized body is an abort keyword, arriving while a
\* record exists for its key from a sender who passes access control, sets
\* abortedLastRun, is answered with the abort acknowledgement and is not handed to
\* the agent; from a sender who does not pass, it is dropped without a reply.
C3_AbortWhenPermitted ==
  ( /\ Ended
    /\ turns[1].sessionKey \in DOMAIN turns[1].startStore
    /\ IsAbortBody(turns[1].ctx.Body) )
  => IF PermittedSender(turns[1].ctx, turns[1].cfg)
     THEN AbortHandled(turns[1])
     ELSE turns[1].reply = NoReply /\ ~turns[1].delegated /\ ~turns[1].queued

\* The owner's "stop" marked a record that had not been aborted before
C3_Aborted ==
  /\ Ended
  /\ turns[1].ctx = Direct(Owner, B_stop)
  /\ turns[1].cfg = OwnerConfig
  /\ turns[1].sessionKey \in DOMAIN turns[1].startStore
  /\ ~turns[1].startStore[turns[1].sessionKey].abortedLastRun
  /\ AbortHandled(turns[1])


\* The bodies that select a model, alone or followed by other text
ModelOnlyBodies == { B_model_opus, B_model_haiku, B_model_gpt, B_model_zed }
ModelInlineBodies == { B_opus_hi, B_haiku_hi, B_zed_hi }

SameOverride(r, before) ==
  /\ r.providerOverride = before.providerOverride
  /\ r.modelOverride = before.modelOverride

\* C4 as stated: a /model directive, alone or followed by other text, that selects
\* the configured default leaves the record without override fields; one that
\* selects another allowed pair leaves exactly that pair in the override fields;
\* one that selects a pair outside the allowed set is rejected and leaves the
\* override fields as they were before the message.
C4_OverrideRoundTrip ==
  LET t == turns[1]
      Holds(ref, r, before) ==
        IF IsDefaultRef(ref)
        THEN r.providerOverride = NoText /\ r.modelOverride = NoText
        ELSE IF Selectable(t.cfg, ref)
        THEN r.providerOverride = ref.provider /\ r.modelOverride = ref.model
        ELSE /\ SameOverride(r, before)
             /\ t.ctx.Body \in ModelOnlyBodies
                  => t.reply.kind = "text" /\ t.reply.parts[1][1] = "Model is not allowed"
  IN ( /\ Ended
       /\ FoundFresh(t)
       /\ t.ctx.Body \in ModelOnlyBodies \cup ModelInlineBodies )
     => Holds(ModelNamed(t.ctx.Body), store[t.sessionKey], t.startStore[t.sessionKey])


\* The bodies that are a reset trigger and nothing else
BareResetBodies == { B_new, B_reset }

\* The turn is on the main session of a direct chat
MainDirect(t) == t.ctx.ChatType # "group" /\ t.sessionKey = MainKeyOf(t.cfg)

\* The turn started a new session whose id replaced the stored one, and cleaned the
\* body to nothing
NewSessionStarted(t) ==
  /\ t.isNewSession
  /\ store[t.sessionKey].sessionId = t.sessionId
  /\ t.sessionKey \in DOMAIN t.startStore
       => t.sessionId # t.startStore[t.sessionKey].sessionId
  /\ t.bodyStripped = <<>>

NotOwner(ctx, cfg) ==
  LET listed == {cfg.allowFrom[i] : i \in DOMAIN cfg.allowFrom} \ { <<"*">> }
  IN ctx.SenderE164 \notin (IF listed = {} THEN {ctx.To} ELSE listed)

\* The turn answered nothing, left the store as it found it, triggered no restart
\* and handed nothing to the agent
SilentlyDropped(t) ==
  /\ t.reply = NoReply
  /\ store = t.startStore
  /\ ~t.restarted
  /\ ~t.delegated
  /\ ~t.queued

\* C7 as stated: a /restart or /activation command that arrives in a group chat
\* from a sender who is not an owner gets no reply, leaves the session store equal
\* to the store before the turn, triggers no restart and is not handed to the agent.
C7_GatedCommandLeavesStore ==
  ( /\ Ended
    /\ turns[1].ctx.ChatType = "group"
    /\ turns[1].ctx.Body \in { B_restart, B_activation, B_always }
    /\ NotOwner(turns[1].ctx, turns[1].cfg) )
  => SilentlyDropped(turns[1])

\* C8 as stated: a direct message from a sender who does not pass access control
\* gets no reply whatever its body, leaves the session store equal to the store
\* before the turn and is not handed to the agent.
C8_DeniedLeavesStore ==
  ( /\ Ended
    /\ turns[1].ctx.ChatType # "group"
    /\ ~PermittedSender(turns[1].ctx, turns[1].cfg) )
  => SilentlyDropped(turns[1])


-----------------------------------------------------------------------------
(* Model selection under allow-lists that name nothing of the catalog      *)
(* (SpecModels): messages of the owner under every catalog and allow-list. *)

Catalogs == { <<>>, SubSeq(Catalog, 1, 1), Catalog }

AllowLists ==
  { <<>>, <<M_zed>>, <<P_openai \o <<"/">> \o M_zed, <<"/">> >>, <<M_haiku>>,
    <<M_zed, P_openai \o <<"/">> \o M_gpt>> }

ModelConfigs ==
  { [OwnerConfig EXCEPT !.catalog = catalog, !.allowedModels = list] :
      catalog \in Catalogs, list \in AllowLists }

ModelMessages ==
  { Direct(Owner, b) :
      b \in { B_hi, B_model, B_model_opus, B_model_haiku, B_model_gpt, B_model_zed,
              B_haiku_hi, B_zed_hi } }

NextModels ==
  \/ /\ Quiet
     /\ started < MaxTurns
     /\ \E ctx \in ModelMessages, cfg \in ModelConfigs : ReplySessionStep(1, ctx, cfg)
     /\ UNCHANGED ticks
  \/ TurnStep(1) /\ UNCHANGED ticks

SpecModels == Init /\ [][NextModels]_vars

\* getReplyFromConfig from its start to the directives stored: what the turn of ctx
\* under cfg makes of the persisted store
ReplyUntilStored(ctx, cfg, persisted, clock, uuid) ==
  LET Dispatch(t) ==
        With(t, IF t.directiveOnly THEN ReplyDirectiveOnly(t, clock)
                ELSE ReplyInline(t, clock))
      Directed(t) == Dispatch(With(t, ReplyDirectives(t, clock)))
  IN Directed(With([ctx |-> ctx, cfg |-> cfg, reply |-> NoReply],
                   ReplySession(ctx, cfg, persisted, clock, uuid)))

\* The allow-list is not empty and none of its entries names an entry of the catalog
NamesNothing(cfg) ==
  /\ cfg.allowedModels # <<>>
  /\ \A i \in DOMAIN cfg.allowedModels, j \in DOMAIN cfg.catalog :
        /\ cfg.allowedModels[i] # cfg.catalog[j].provider \o <<"/">> \o cfg.catalog[j].id
        /\ cfg.catalog[j].provider = DEFAULT_PROVIDER
             => cfg.allowedModels[i] # cfg.catalog[j].id

WithoutAllowlist(cfg) == [cfg EXCEPT !.allowedModels = <<>>]

\* The turn has validated the stored override and handled its /model directive
ModelsSettled(t) ==
  /\ t.kind = "reply"
  /\ t.pc = "commands" \/ (t.pc = "done" /\ t.directiveOnly)

\* C5: under an allow-list that is not empty and names no entry of the catalog,
\* buildAllowedModelSet returns what it returns without allow-list (allowAny, the
\* whole catalog, all its keys), and the turn validates the stored override and
\* accepts, rejects or lists models exactly as the same turn does without
\* allow-list: the same record, store, reply, provider and model.
C5_FailOpen ==
  LET t == turns[1]
      Same(twin) ==
        /\ t.sessionEntry = twin.sessionEntry
        /\ t.sessionStore = twin.sessionStore
        /\ store = twin.sessionStore
        /\ t.reply = twin.reply
        /\ t.provider = twin.provider
        /\ t.model = twin.model
        /\ t.resetModelOverride = twin.resetModelOverride
        /\ t.directiveOnly = twin.directiveOnly
  IN ( ModelsSettled(t) /\ NamesNothing(t.cfg) )
     => /\ buildAllowedModelSet(t.cfg, t.cfg.catalog, DEFAULT_PROVIDER)
             = buildAllowedModelSet(WithoutAllowlist(t.cfg), t.cfg.catalog,
                                    DEFAULT_PROVIDER)
        /\ Same(ReplyUntilStored(t.ctx, WithoutAllowlist(t.cfg), t.startStore,
                                 t.startedAt, t.sessionId))

\* Under an allow-list that names nothing of a catalog without haiku, the turn
\* dropped a stored override on haiku
C5_OverrideDropped ==
  /\ ModelsSettled(turns[1])
  /\ NamesNothing(turns[1].cfg)
  /\ turns[1].cfg.catalog # <<>>
  /\ turns[1].sessionKey \in DOMAIN turns[1].startStore
  /\ turns[1].startStore[turns[1].sessionKey].modelOverride = M_haiku
  /\ turns[1].resetModelOverride
  /\ store[turns[1].sessionKey].modelOverride = NoText


-----------------------------------------------------------------------------
(* Turns that overlap (SpecShared): two tasks share the store, each of the  *)
(* three entry points may start in either, and every step of one may fall   *)
(* between two steps of the other.                                          *)

Tasks == {1, 2}

SharedMessages ==
  { InGroup(Owner, B_hi), InGroup(Owner, B_always), Direct(Owner, B_hi),
    Direct(Owner, B_think_high) }

SharedCommands == { Command(Owner, B_hi), Command(Owner, B_empty) }

SharedJobs == { Job(CronKey, B_hi) }

\* The steps of a turn of any entry point once it has started
TaskStep(s) ==
  \/ TurnStep(s)
  \/ ReplyQueueStep(s)
  \/ CommandOverridesStep(s)
  \/ CommandModelStep(s)
  \/ CommandRunStep(s)
  \/ CommandAgentRejects(s)
  \/ \E result \in Results : CommandAgentReturns(s, result)
  \/ CronSystemSentStep(s)
  \/ CronRunStep(s)
  \/ CronAgentRejects(s)
  \/ \E result \in Results : CronAgentReturns(s, result)

NextShared ==
  \/ /\ started < MaxTurns
     /\ \E s \in Tasks :
          \/ \E ctx \in SharedMessages : ReplySessionStep(s, ctx, OwnerConfig)
          \/ \E opts \in SharedCommands :
               \/ CommandThrowsStep(s, opts, OwnerConfig)
               \/ CommandSessionStep(s, opts, OwnerConfig)
          \/ \E job \in SharedJobs : CronSessionStep(s, job, OwnerConfig)
     /\ UNCHANGED ticks
  \/ \E s \in Tasks : TaskStep(s) /\ UNCHANGED ticks

SpecShared == Init /\ [][NextShared]_vars


\* The fields of a record other than its time stamp
EntryFields == DOMAIN NewEntry(0, 0) \ {"updatedAt"}

\* The turn of task s has ended and has written a record under its key
Settled(s) ==
  /\ turns[s].pc = "done"
  /\ "sessionStore" \in DOMAIN turns[s]
  /\ turns[s].sessionKey \in DOMAIN turns[s].sessionStore

\* The record the turn wrote under its key, and the fields in which it differs
\* from the record the turn found when it started
Wrote(t) == t.sessionStore[t.sessionKey]

ChangedBy(t) ==
  { f \in EntryFields :
      \/ t.sessionKey \notin DOMAIN t.startStore
      \/ Wrote(t)[f] # t.startStore[t.sessionKey][f] }

\* C9 as stated: once two turns on one session key have both ended, however their
\* steps were interleaved, the record of the key holds every field change of
\* either turn that the other turn did not make as well.
C9_BothChangesKept ==
  \A a \in Tasks : \A b \in Tasks \ {a} :
    ( Settled(a) /\ Settled(b) /\ turns[a].sessionKey = turns[b].sessionKey )
    => /\ turns[a].sessionKey \in DOMAIN store
       /\ \A f \in ChangedBy(turns[a]) \ ChangedBy(turns[b]) :
            store[turns[a].sessionKey][f] = Wrote(turns[a])[f]

\* C10 as stated: once two turns on different session keys have both ended,
\* however their steps were interleaved and whichever entry points they came
\* through, the record of each key holds every field change its turn made: no
\* save of one turn removes or reverts the record of the other key.
C10_OtherKeyKept ==
  \A a \in Tasks : \A b \in Tasks \ {a} :
    ( Settled(a) /\ Settled(b) /\ turns[a].sessionKey # turns[b].sessionKey )
    => /\ turns[a].sessionKey \in DOMAIN store
       /\ \A f \in ChangedBy(turns[a]) :
            store[turns[a].sessionKey][f] = Wrote(turns[a])[f]


-----------------------------------------------------------------------------
(* Runs of the agent engine under overlapping turns (SpecShared).          *)

\* The call of runEmbeddedPiAgent of task s has not returned yet
AwaitsAgent(s) == turns[s].pc = "agent"

\* C11 as stated: no two calls of runEmbeddedPiAgent for one session key are
\* unfinished at the same time, and a message that joined the run in flight ended
\* its turn without a reply and without a run of its own.
C11_OneRunPerKey ==
  /\ \A a \in Tasks : \A b \in Tasks \ {a} :
       ~( /\ AwaitsAgent(a)
          /\ AwaitsAgent(b)
          /\ turns[a].sessionKey = turns[b].sessionKey )
  /\ \A s \in Tasks :
       (turns[s].pc = "done" /\ turns[s].kind = "reply" /\ turns[s].queued)
       => turns[s].reply = NoReply /\ ~turns[s].delegated


-----------------------------------------------------------------------------
(* Directives with a malformed argument, and the prompt handed to the      *)
(* agent: turns of getReplyFromConfig on direct messages of the owner.     *)

B_loud_hi == <<"/","t","h","i","n","k"," ","l","o","u","d"," ","h","i">>
B_verbose_maybe == <<"/","v","e","r","b","o","s","e"," ","m","a","y","b","e">>
B_maybe_hi == <<"/","v","e","r","b","o","s","e"," ","m","a","y","b","e"," ","h","i">>
B_loud_haiku_hi ==
  <<"/","t","h","i","n","k"," ","l","o","u","d"," ","/","m","o","d","e","l"," ",
    "h","a","i","k","u"," ","h","i">>
B_high_zed_hi ==
  <<"/","t","h","i","n","k"," ","h","i","g","h"," ","/","m","o","d","e","l"," ",
    "z","e","d"," ","h","i">>
B_high == <<"h","i","g","h">>
B_spaces == <<" "," ">>

LevelBodies ==
  { B_hi, B_think_high, B_verbose_on, B_model_haiku, B_think_loud, B_loud_hi,
    B_verbose_maybe, B_maybe_hi, B_loud_haiku, B_loud_haiku_hi, B_model_zed, B_zed_hi,
    B_high_zed_hi, B_high, B_high_hi, B_empty, B_spaces, B_new }

LevelMessages == {Direct(Owner, b) : b \in LevelBodies}

LevelConfigs == {OwnerConfig, AllowlistConfig}

NextLevels ==
  \/ /\ Quiet
     /\ started < MaxTurns
     /\ \E ctx \in LevelMessages, cfg \in LevelConfigs : ReplySessionStep(1, ctx, cfg)
     /\ UNCHANGED ticks
  \/ TurnStep(1) /\ UNCHANGED ticks
  \/ Quiet /\ Tick(IdleMs(AllowlistConfig) + 1)

SpecLevels == Init /\ [][NextLevels]_vars

\* The bodies that hold a /think or /verbose keyword followed by a word that is
\* no level, alone and with other text
InvalidLevelAlone == { B_think_loud, B_verbose_maybe }
InvalidLevelInText == { B_loud_hi, B_maybe_hi }

CorrectionHeads == { "Unrecognized thinking level", "Unrecognized verbose level" }

\* The turn was answered with the correction text and nothing went to the agent
Corrected(t) ==
  /\ t.reply.kind = "text"
  /\ t.reply.parts # <<>>
  /\ t.reply.parts[1][1] \in CorrectionHeads
  /\ ~t.delegated
  /\ ~t.queued

\* C17 as stated: a message of a permitted sender with a /think or /verbose keyword
\* followed by an unrecognized level word is answered with the correction text and
\* is not handed to the agent, whether the directive is the whole message or other
\* text follows it.
C17_InvalidLevelCorrected ==
  ( /\ Ended
    /\ turns[1].ctx.Body \in InvalidLevelAlone \cup InvalidLevelInText )
  => Corrected(turns[1])

\* The part of C17 about a directive that is the whole message
C17_AloneCorrected ==
  (Ended /\ turns[1].ctx.Body \in InvalidLevelAlone) => Corrected(turns[1])

\* The bodies with a directive whose argument is malformed or not allowed: an
\* unknown level, or a model outside the catalog (no configuration here allows it)
MalformedBodies ==
  { B_think_loud, B_loud_hi, B_verbose_maybe, B_maybe_hi, B_loud_haiku,
    B_loud_haiku_hi, B_model_zed, B_zed_hi, B_high_zed_hi }

\* The four fields directives set, of the record of a key (absent record: unset)
Settings(st, key) ==
  LET e == IF key \in DOMAIN st THEN st[key] ELSE NewEntry(0, 0)
  IN <<e.thinkingLevel, e.verboseLevel, e.modelOverride, e.providerOverride>>

\* C18 as stated: after a message with a malformed or disallowed directive argument
\* the thinking level, the verbose level and the model override of the session are
\* what they were before the message, also when the message carries other, valid
\* directives.  (Turns that found the record expired are left out: there the new
\* session, not the directive, changes the fields.)
C18_MalformedLeavesSettings ==
  LET t == turns[1]
  IN ( /\ Ended
       /\ t.ctx.Body \in MalformedBodies
       /\ t.sessionKey \in DOMAIN t.startStore => FoundFresh(t) )
     => Settings(store, t.sessionKey) = Settings(t.startStore, t.sessionKey)

\* C19 as stated: a turn of getReplyFromConfig whose body is empty ends with the
\* fixed reply and no run, and every prompt handed to runEmbeddedPiAgent holds
\* something other than white space.
C19_PromptNeverEmpty ==
  LET t == turns[1]
  IN /\ (Ended /\ Trim(t.ctx.Body) = <<>>) => (t.reply = EmptyBodyReply /\ ~t.delegated)
     /\ (t.kind = "reply" /\ t.delegated) => Trim(t.run.prompt) # <<>>


-----------------------------------------------------------------------------
(* The directive extractors on their own: a body is parsed, and what the   *)
(* parse left is parsed again for the same kind of directive.              *)

MaxWords == 3

ParseWords ==
  { <<"/","t","h","i","n","k">>, <<"/","t">>, <<"/","v","e","r","b","o","s","e">>,
    <<"/","v">>, <<"h","i","g","h">>, <<"o","n">>, <<"h","i">> }

\* The bodies of one to MaxWords words, a blank between two words
ParseBodies ==
  { JoinWith(ws, <<" ">>) : ws \in UNION { [1..n -> ParseWords] : n \in 1..MaxWords } }

\* Bodies with slash-words that begin with an alias, and with the separators
TokenBodies ==
  { <<"/","t","m","p"," ","h","i">>, <<"h","i"," ","/","t","h","i","g","h">>,
    <<"/","t","h","i","n","k","h","i","g","h">>, <<"/","T","h","i","n","k",":","h","i","g","h">>,
    <<"/","t","h","i","n","k","i","n","g"," ",":"," ","l","o","w">>,
    <<"/","v","e","r","s","i","o","n"," ","o","n">>, <<"/","v","o","n">>,
    <<"/","V",":","o","n">>, <<"x","/","t"," ","h","i","g","h">> }

InitParse ==
  /\ store = << >>
  /\ now = 0
  /\ nextId = 1
  /\ \E body \in ParseBodies \cup TokenBodies :
       turns = [s \in Slots |->
                 IF s = 1 THEN [kind |-> "parse", pc |-> "body", body |-> body] ELSE Idle]
  /\ started = 0
  /\ sysEvents = <<>>
  /\ restarts = 0
  /\ abortMemory = << >>
  /\ ticks = 0

\* extractThinkDirective(body), then extractThinkDirective(cleaned)
ExtractThinkStep(s) ==
  /\ turns[s].kind = "parse" /\ turns[s].pc = "body"
  /\ turns' = [turns EXCEPT ![s] =
       With(@, [pc |-> "parsed", directive |-> "think",
                first |-> extractThinkDirective(@.body)])]
  /\ UNCHANGED <<store, now, nextId, started, sysEvents, restarts, abortMemory, ticks>>

\* extractVerboseDirective(body), then extractVerboseDirective(cleaned)
ExtractVerboseStep(s) ==
  /\ turns[s].kind = "parse" /\ turns[s].pc = "body"
  /\ turns' = [turns EXCEPT ![s] =
       With(@, [pc |-> "parsed", directive |-> "verbose",
                first |-> extractVerboseDirective(@.body)])]
  /\ UNCHANGED <<store, now, nextId, started, sysEvents, restarts, abortMemory, ticks>>

ExtractAgainStep(s) ==
  /\ turns[s].kind = "parse" /\ turns[s].pc = "parsed"
  /\ turns' = [turns EXCEPT ![s] =
       With(@, [pc |-> "done",
                second |-> IF @.directive = "think"
                           THEN extractThinkDirective(@.first.cleaned)
                           ELSE extractVerboseDirective(@.first.cleaned)])]
  /\ UNCHANGED <<store, now, nextId, started, sysEvents, restarts, abortMemory, ticks>>

NextParse ==
  \/ ExtractThinkStep(1)
  \/ ExtractVerboseStep(1)
  \/ ExtractAgainStep(1)

SpecParse == InitParse /\ [][NextParse]_vars

Reparsed == turns[1].kind = "parse" /\ turns[1].pc = "done"

\* C16 as stated: parsing what a parse left, for the same kind of directive, finds
\* no directive, also for bodies that hold the directive more than once.
C16_ParseIdempotent ==
  Reparsed => ~turns[1].second.hasDirective

\* The number of words of the body that are a keyword of the directive parsed
KeywordCount(t) ==
  LET keys == IF t.directive = "think" THEN {<<"/","t","h","i","n","k">>, <<"/","t">>}
              ELSE {<<"/","v","e","r","b","o","s","e">>, <<"/","v">>}
      Count[i \in 0..Len(t.body)] ==
        IF i = 0 THEN 0
        ELSE Count[i - 1]
             + (IF /\ \E k \in keys :
                        /\ i + Len(k) - 1 <= Len(t.body)
                        /\ SubSeq(t.body, i, i + Len(k) - 1) = k
                        /\ (i + Len(k) - 1 = Len(t.body) \/ t.body[i + Len(k)] = " ")
                   /\ (i = 1 \/ t.body[i - 1] = " ")
                THEN 1 ELSE 0)
  IN Count[Len(t.body)]

\* The part of C16 about a body that holds the keyword of the directive once
C16_OnceIdempotent ==
  (Reparsed /\ KeywordCount(turns[1]) <= 1) => ~turns[1].second.hasDirective


-----------------------------------------------------------------------------
(* One turn after another through any of the three entry points:           *)
(* getReplyFromConfig, agentCommand with its options, and                  *)
(* runCronIsolatedAgentTurn, also on the key of an interactive session.    *)

T_off == <<"o","f","f">>
T_low == <<"l","o","w">>
T_on  == <<"o","n">>

\* An allow-list that leaves out haiku (and the default model); idle window 1 minute
NarrowConfig ==
  [OwnerConfig EXCEPT !.allowedModels = <<P_openai \o <<"/">> \o M_gpt>>,
                      !.idleMinutes = <<1>>]

\* A session id no turn of the model generates: each turn takes at most one new id
OtherSessionId == MaxTurns + 1

TurnsBodies == { B_hi, B_think_high, B_think_hi, B_model_haiku, B_haiku_hi, B_status,
                 B_stop, B_new }

TurnsMessages == {Direct(Owner, b) : b \in TurnsBodies}

TurnsCommands ==
  { Command(Owner, B_hi),
    Command(Owner, B_empty),
    [Command(Owner, B_hi) EXCEPT !.thinking = B_think_loud],
    [Command(Owner, B_hi) EXCEPT !.thinking = B_high, !.verbose = T_on],
    [Command(Owner, B_hi) EXCEPT !.thinking = T_off],
    [Command(Owner, B_hi) EXCEPT !.thinkingOnce = T_low],
    [Command(Owner, B_hi) EXCEPT !.thinking = B_high, !.thinkingOnce = T_low],
    [Command(NoText, B_hi) EXCEPT !.sessionId = 1],
    [Command(NoText, B_hi) EXCEPT !.sessionId = OtherSessionId],
    [Command(Owner, B_hi) EXCEPT !.sessionId = OtherSessionId],
    [Command(Stranger, B_hi) EXCEPT !.sessionId = 1] }

TurnsJobs == { Job(OwnerKey, B_hi), Job(CronKey, B_hi) }

TurnsConfigs == {OwnerConfig, NarrowConfig}

\* The slot of the turn started last, and of the one before it
LastSlot == IF started % 2 = 1 THEN 1 ELSE 2
NextSlot == 3 - LastSlot

\* Turns start one after the other, in slots 1 and 2 by turns, so that the turn
\* before the last stays on record; the clock moves on between two turns or while
\* a turn awaits the agent
NextTurns ==
  \/ /\ Quiet
     /\ started < MaxTurns
     /\ \E cfg \in TurnsConfigs :
          \/ \E ctx \in TurnsMessages : ReplySessionStep(NextSlot, ctx, cfg)
          \/ \E opts \in TurnsCommands :
               \/ CommandThrowsStep(NextSlot, opts, cfg)
               \/ CommandSessionStep(NextSlot, opts, cfg)
          \/ \E job \in TurnsJobs : CronSessionStep(NextSlot, job, cfg)
     /\ UNCHANGED ticks
  \/ TaskStep(LastSlot) /\ UNCHANGED ticks
  \/ /\ Quiet \/ AwaitsAgent(LastSlot)
     /\ Tick(IdleMs(NarrowConfig) + 1)

SpecTurns == Init /\ [][NextTurns]_vars

\* The turn started last and the turn before it
Last == turns[LastSlot]
Prev == turns[NextSlot]


\* The turn in slot 1, whatever its entry point, has ended
TurnEnded == Last.kind \in {"reply", "command", "cron"} /\ Last.pc = "done"

\* runEmbeddedPiAgent was called and rejected
Rejected(t) ==
  /\ t.kind \in {"reply", "command"}
  /\ t.pc = "done"
  /\ t.delegated
  /\ t.reply.kind = "error"

HaikuRef == [provider |-> DEFAULT_PROVIDER, model |-> M_haiku]

\* What the turn stored before it called the agent is in the persisted store: the
\* session it started, the levels and the model its directives or options named
WritesKept(t, st) ==
  /\ t.kind = "reply" =>
       /\ t.sessionKey \in DOMAIN st
       /\ st[t.sessionKey].sessionId = t.sessionId
       /\ t.ctx.Body = B_think_hi => st[t.sessionKey].thinkingLevel = "high"
       /\ (t.ctx.Body = B_haiku_hi /\ Selectable(t.cfg, HaikuRef)) =>
            /\ st[t.sessionKey].providerOverride = HaikuRef.provider
            /\ st[t.sessionKey].modelOverride = HaikuRef.model
  /\ (t.kind = "command" /\ HasKey(t)) =>
       /\ t.sessionKey \in DOMAIN st
       /\ st[t.sessionKey].sessionId = t.sessionId
       /\ t.opts.thinking = B_high => st[t.sessionKey].thinkingLevel = "high"
       /\ t.opts.thinking = T_off => st[t.sessionKey].thinkingLevel = None
       /\ t.opts.verbose = T_on => st[t.sessionKey].verboseLevel = "on"

\* C12 as stated: when runEmbeddedPiAgent rejects, the turn of getReplyFromConfig or
\* agentCommand ends with that error, and everything the turn stored before the
\* call (a new session, the levels and the model override set by an inline directive
\* or a command-line option) is in the persisted store.
C12_RejectionKeepsWrites ==
  Rejected(Last) => WritesKept(Last, store)

\* The part of C12 about getReplyFromConfig
C12_ReplyKeepsWrites ==
  (Rejected(Last) /\ Last.kind = "reply") => WritesKept(Last, store)

\* A command turn that names its session by id
ById(t) == t.kind = "command" /\ "sessionKey" \in DOMAIN t /\ t.opts.sessionId # 0

\* The keys whose record carries the session id
Carriers(st, id) == {k \in DOMAIN st : st[k].sessionId = id}

\* C13 as stated: agentCommand with an explicit session id hands that id to the
\* engine, does not mark the turn new, takes the record that carries the id from
\* whatever key holds it when the record of its own key does not, and when no
\* record carries the id, one does after the turn.
C13_ExplicitSessionId ==
  LET t == Last
  IN ById(t) =>
       /\ t.sessionId = t.opts.sessionId
       /\ t.delegated => t.run.sessionId = t.opts.sessionId
       /\ ~t.isNewSession
       /\ Carriers(t.startStore, t.opts.sessionId) # {} =>
            /\ t.hasEntry
            /\ ~Truthy(t.opts.to) => t.sessionKey \in Carriers(t.startStore, t.opts.sessionId)
       /\ (t.pc = "done" /\ Carriers(t.startStore, t.opts.sessionId) = {}) =>
            Carriers(store, t.opts.sessionId) # {}

\* C13 without its last part
C13_IdUsedAndFound ==
  LET t == Last
  IN ById(t) =>
       /\ t.sessionId = t.opts.sessionId
       /\ t.delegated => t.run.sessionId = t.opts.sessionId
       /\ ~t.isNewSession
       /\ Carriers(t.startStore, t.opts.sessionId) # {} =>
            /\ t.hasEntry
            /\ ~Truthy(t.opts.to) => t.sessionKey \in Carriers(t.startStore, t.opts.sessionId)

\* The last part of C13 for a command that also names the recipient
C13_RecordWithTo ==
  LET t == Last
  IN (ById(t) /\ Truthy(t.opts.to) /\ t.pc = "done"
      /\ Carriers(t.startStore, t.opts.sessionId) = {})
     => Carriers(store, t.opts.sessionId) # {}


\* The turn started inside the idle window of the last write of its key's record,
\* is no reset and names no session id of its own
Continues(t) ==
  /\ t.kind \in {"reply", "command", "cron"}
  /\ "sessionKey" \in DOMAIN t
  /\ t.sessionKey \in DOMAIN t.startStore
  /\ t.startedAt - t.startStore[t.sessionKey].updatedAt <= IdleMs(t.cfg)
  /\ t.kind = "reply" => t.ctx.Body # B_new
  /\ t.kind = "command" => t.opts.sessionId = 0

\* C14: a turn on a key, through any entry point, that starts within the idle window
\* of the record's last write, with no reset trigger and no explicit session id,
\* leaves the session id of the record what it was, at every write it makes, and
\* hands that id to the agent.  (By induction: the session id after every turn of
\* such a sequence is the one after the first.)
C14_SessionIdStable ==
  LET t == Last
  IN Continues(t) =>
       /\ t.sessionKey \in DOMAIN store
       /\ store[t.sessionKey].sessionId = t.startStore[t.sessionKey].sessionId
       /\ t.delegated => t.run.sessionId = t.startStore[t.sessionKey].sessionId

\* A cron turn on the key of the owner's interactive session, started after the
\* clock moved on but inside the idle window, has run the agent and ended
C14_ContinuedAcrossEntryPoints ==
  /\ TurnEnded
  /\ Last.kind = "cron"
  /\ Last.sessionKey = OwnerKey
  /\ Continues(Last)
  /\ Last.startedAt > Last.startStore[OwnerKey].updatedAt
  /\ Last.delegated

\* The model override the record of the turn's key held when the turn started
StoredOverride(t) ==
  [ provider |-> IF Truthy(t.startStore[t.sessionKey].providerOverride)
                 THEN t.startStore[t.sessionKey].providerOverride ELSE DEFAULT_PROVIDER,
    model |-> t.startStore[t.sessionKey].modelOverride ]

\* The turn found a fresh record with a model override and names no model itself
HasOverride(t) ==
  /\ Continues(t)
  /\ Truthy(t.startStore[t.sessionKey].modelOverride)
  /\ t.kind = "reply" => t.ctx.Body \notin {B_model_haiku, B_haiku_hi}

\* What C15 asks of a turn
OverrideValidated(t, st) ==
  IF Selectable(t.cfg, StoredOverride(t))
  THEN t.delegated =>
         /\ t.run.provider = StoredOverride(t).provider
         /\ t.run.model = StoredOverride(t).model
  ELSE /\ t.delegated =>
            /\ t.run.provider = DEFAULT_PROVIDER
            /\ t.run.model = DEFAULT_MODEL
       /\ t.pc = "done" =>
            /\ st[t.sessionKey].modelOverride = NoText
            /\ st[t.sessionKey].providerOverride = NoText

\* C15 as stated: every turn whose record holds a model override validates it against
\* the allowed models; an override that is not allowed is removed from the record
\* and the agent runs on the configured default, an allowed one is what the agent
\* runs on.
C15_OverrideValidated ==
  HasOverride(Last) => OverrideValidated(Last, store)

\* C15 for getReplyFromConfig and agentCommand
C15_InteractiveValidated ==
  (HasOverride(Last) /\ Last.kind # "cron") => OverrideValidated(Last, store)

\* A command turn that names the recipient
WithTo(t) == t.kind = "command" /\ "sessionKey" \in DOMAIN t /\ Truthy(t.opts.to)

\* C20 as stated: with --to, --thinking X (X a level other than off) and --verbose on
\* are written to the record of the key and handed to the agent, --thinking off
\* removes the stored level, and --thinking-once is handed to the agent before
\* --thinking and the stored level, and is never written to the store.
C20_OptionsStoredAndPassed ==
  LET t == Last
      once == t.opts.thinkingOnce = T_low
  IN /\ WithTo(t) =>
          /\ (t.delegated /\ once) => t.run.thinkLevel = "low"
          /\ (t.delegated /\ ~once /\ t.opts.thinking = B_high) => t.run.thinkLevel = "high"
          /\ (t.delegated /\ t.opts.verbose = T_on) => t.run.verboseLevel = "on"
          /\ t.pc = "done" =>
               /\ t.opts.thinking = B_high => store[t.sessionKey].thinkingLevel = "high"
               /\ t.opts.thinking = T_off => store[t.sessionKey].thinkingLevel = None
               /\ t.opts.verbose = T_on => store[t.sessionKey].verboseLevel = "on"
     /\ \A k \in DOMAIN store : store[k].thinkingLevel # "low"

\* C20 for a record without a model override the configuration excludes
C20_WithoutExcludedOverride ==
  LET t == Last
      kept == t.sessionKey \in DOMAIN t.startStore
                => (Truthy(t.startStore[t.sessionKey].modelOverride)
                      => Selectable(t.cfg, StoredOverride(t)))
  IN (WithTo(t) /\ kept /\ t.pc = "done") =>
          /\ t.opts.thinking = B_high => store[t.sessionKey].thinkingLevel = "high"
          /\ t.opts.thinking = T_off => store[t.sessionKey].thinkingLevel = None
          /\ t.opts.verbose = T_on => store[t.sessionKey].verboseLevel = "on"


\* The time of the last save of the store by turn p
LastWrite(p) == IF "savedAt" \in DOMAIN p THEN p.savedAt ELSE p.startedAt

\* Neither a reset nor a command that names its session id
Plain(t) ==
  /\ t.kind \in {"reply", "command", "cron"}
  /\ "sessionKey" \in DOMAIN t
  /\ t.kind = "reply" => t.ctx.Body # B_new
  /\ t.kind = "command" => t.opts.sessionId = 0

\* Turn t follows turn p on the same key, and starts within the idle window of the
\* last write of p
FollowsWrite(t, p) ==
  /\ Plain(t)
  /\ Plain(p)
  /\ p.pc = "done"
  /\ t.sessionKey = p.sessionKey
  /\ t.startedAt - LastWrite(p) <= IdleMs(t.cfg)

\* C14 as stated: a turn that starts within the idle window of the previous write to
\* the record of its key, with no reset trigger and no explicit session id in either
\* turn, leaves the session id of the record what it was after the previous turn and
\* hands that id to the agent.
C14_StableAfterWrite ==
  LET t == Last
  IN FollowsWrite(t, Prev) =>
       /\ t.sessionKey \in DOMAIN t.startStore
       /\ t.sessionKey \in DOMAIN store
       /\ store[t.sessionKey].sessionId = t.startStore[t.sessionKey].sessionId
       /\ t.delegated => t.run.sessionId = t.startStore[t.sessionKey].sessionId


-----------------------------------------------------------------------------
(* The configured model: turns through the three entry points under         *)
(* configurations that name agent.provider and agent.model in every shape. *)

A_gpt == P_openai \o <<"/">> \o M_gpt
A_haiku == DEFAULT_PROVIDER \o <<"/">> \o M_haiku
A_gpt_padded == <<" ">> \o P_openai \o <<" ", "/", " ">> \o M_gpt \o <<" ">>
A_no_model == P_openai \o <<"/">>

AgentProviders == { NoText, P_openai }
AgentModels == { NoText, M_gpt, M_zed, A_gpt, A_haiku, A_gpt_padded, A_no_model }

ConfiguredConfigs ==
  { [OwnerConfig EXCEPT !.agentProvider = p, !.agentModel = m] :
      p \in AgentProviders, m \in AgentModels }

ConfiguredMessages == { Direct(Owner, B_hi), Direct(Owner, B_model_haiku) }

NextConfigured ==
  \/ /\ Quiet
     /\ started < MaxTurns
     /\ \E cfg \in ConfiguredConfigs :
          \/ \E ctx \in ConfiguredMessages : ReplySessionStep(1, ctx, cfg)
          \/ CommandSessionStep(1, Command(Owner, B_hi), cfg)
          \/ CronSessionStep(1, Job(OwnerKey, B_hi), cfg)
     /\ UNCHANGED ticks
  \/ TaskStep(1) /\ UNCHANGED ticks

SpecConfigured == Init /\ [][NextConfigured]_vars

\* The pair a provider-prefixed agent.model names
PrefixedPair(m) ==
  CASE m \in {A_gpt, A_gpt_padded} -> [provider |-> P_openai, model |-> M_gpt]
    [] m = A_haiku -> [provider |-> DEFAULT_PROVIDER, model |-> M_haiku]
    [] OTHER -> NoRef

\* The turn runs on a record that holds no model override
NoOverride(t) ==
  /\ t.kind \in {"reply", "command", "cron"}
  /\ t.delegated
  /\ t.sessionKey \in DOMAIN t.startStore =>
       /\ ~Truthy(t.startStore[t.sessionKey].modelOverride)
       /\ ~Truthy(t.startStore[t.sessionKey].providerOverride)

\* C21: the agent is called with the configured pair when the session has no
\* override: the pair of a provider-prefixed agent.model whatever agent.provider
\* says; for an agent.model without a slash that model with agent.provider if set,
\* else the hard default provider; the hard default model when agent.model is
\* unset.
C21_ConfiguredPair ==
  LET t == turns[1]
      m == t.cfg.agentModel
  IN NoOverride(t) =>
       /\ PrefixedPair(m) # NoRef =>
            t.run.provider = PrefixedPair(m).provider /\ t.run.model = PrefixedPair(m).model
       /\ m \in {M_gpt, M_zed} =>
            /\ t.run.model = m
            /\ t.run.provider = IF t.cfg.agentProvider = NoText THEN DEFAULT_PROVIDER
                                ELSE t.cfg.agentProvider
       /\ m = NoText => t.run.model = DEFAULT_MODEL

\* A cron turn on an existing record ran on a prefixed agent.model whose provider is
\* not agent.provider
C21_PrefixedOverProvider ==
  /\ turns[1].kind = "cron"
  /\ NoOverride(turns[1])
  /\ turns[1].cfg.agentModel = A_haiku
  /\ turns[1].cfg.agentProvider = P_openai
  /\ turns[1].pc = "done"
  /\ turns[1].sessionKey \in DOMAIN turns[1].startStore


-----------------------------------------------------------------------------
(* The record of a key across a cron turn (SpecTurns).                     *)

\* The fields of a record a cron turn does not set, and those it sets only from a
\* reported usage
CronKeeps ==
  { "modelOverride", "providerOverride", "abortedLastRun", "groupActivation",
    "groupActivationNeedsSystemIntro", "skillsSnapshot" }
CronUsage == { "inputTokens", "outputTokens", "totalTokens" }

\* The cron turn ended without a usage report
NoUsageReported(t) ==
  "runResult" \in DOMAIN t => t.runResult.usage = NoUsage

\* C22 as stated: after a cron turn on a key whose record was fresh, every field of
\* the record the turn does not set itself has the value it had before the turn.
C22_CronKeepsFields ==
  LET t == Last
  IN (t.kind = "cron" /\ t.pc = "done" /\ Continues(t)) =>
       /\ \A f \in CronKeeps : store[t.sessionKey][f] = t.startStore[t.sessionKey][f]
       /\ NoUsageReported(t) =>
            \A f \in CronUsage : store[t.sessionKey][f] = t.startStore[t.sessionKey][f]


-----------------------------------------------------------------------------
(* The /model selector without an argument: turns of getReplyFromConfig on *)
(* direct messages of the owner, under every kind of allow-list.           *)

B_high_model == <<"/","t","h","i","n","k"," ","h","i","g","h"," ","/","m","o","d","e","l">>
B_model_on == <<"/","m","o","d","e","l"," ","/","v","e","r","b","o","s","e"," ","o","n">>

ListingBodies == { B_model, B_high_model, B_model_on, B_model_haiku, B_think_high, B_hi }

ListingMessages == {Direct(Owner, b) : b \in ListingBodies}

\* The catalog cannot be loaded or is empty
NoCatalogConfig == [OwnerConfig EXCEPT !.catalog = <<>>]

ListingConfigs ==
  {OwnerConfig, AllowlistConfig, NarrowConfig, UnknownAllowlistConfig, NoCatalogConfig}

NextListing ==
  \/ /\ Quiet
     /\ started < MaxTurns
     /\ \E ctx \in ListingMessages, cfg \in ListingConfigs : ReplySessionStep(1, ctx, cfg)
     /\ UNCHANGED ticks
  \/ TurnStep(1) /\ UNCHANGED ticks
  \/ Quiet /\ Tick(IdleMs(AllowlistConfig) + 1)

SpecListing == Init /\ [][NextListing]_vars

\* The bodies made of directives only, with a /model that names no model
BareModelBodies == { B_model, B_high_model, B_model_on }

\* The provider/model labels the listing of a configuration shows: the catalog
\* entries the allow-list names, the whole catalog when it names none of them
ListedModels(cfg) ==
  CASE cfg \in {OwnerConfig, UnknownAllowlistConfig} ->
         << modelKey(DEFAULT_PROVIDER, DEFAULT_MODEL), modelKey(DEFAULT_PROVIDER, M_haiku),
            modelKey(P_openai, M_gpt) >>
    [] cfg = AllowlistConfig -> << modelKey(DEFAULT_PROVIDER, M_haiku), modelKey(P_openai, M_gpt) >>
    [] cfg = NarrowConfig -> << modelKey(P_openai, M_gpt) >>
    [] OTHER -> <<>>

\* The reply is the listing of the allowed catalog, or the fixed text when it is
\* empty
IsListing(reply, cfg) ==
  /\ reply.kind = "text"
  /\ IF ListedModels(cfg) = <<>>
     THEN reply.parts = << <<"No models available.">> >>
     ELSE /\ reply.parts[1][1] \in {"Models (current):", "Models (current, default):"}
          /\ LET labels == SelectSeq(reply.parts, LAMBDA p : p[1] = "-")
             IN /\ Len(labels) = Len(ListedModels(cfg))
                /\ \A i \in DOMAIN labels : labels[i] = <<"-">> \o ListedModels(cfg)[i]

\* C23: the directive handling of a directive-only message whose /model names no
\* model ends the turn with the listing of the allowed catalog (or "No models
\* available."), calls no agent, and leaves the model override, the thinking level
\* and the verbose level of the record as they were.
C23_BareModelLists ==
  [][ ( /\ turns[1].kind = "reply"
        /\ turns[1].pc = "dispatch"
        /\ turns[1].ctx.Body \in BareModelBodies )
      => ( /\ turns'[1].pc = "done"
           /\ IsListing(turns'[1].reply, turns[1].cfg)
           /\ ~turns'[1].delegated
           /\ ~turns'[1].queued
           /\ Settings(store', turns[1].sessionKey) = Settings(store, turns[1].sessionKey) )
    ]_vars

\* "/think high /model" was answered with a listing for a record that holds a model
\* override, and the record has no thinking level
C23_ListedWithOverride ==
  /\ Ended
  /\ turns[1].ctx.Body = B_high_model
  /\ turns[1].cfg = AllowlistConfig
  /\ IsListing(turns[1].reply, turns[1].cfg)
  /\ store[turns[1].sessionKey].modelOverride = M_haiku
  /\ store[turns[1].sessionKey].thinkingLevel = None


-----------------------------------------------------------------------------
(* Whole keywords (SpecParse).                                             *)

\* The body holds, at its start or after white space, one of the aliases as a whole
\* word (any case), then a separator (white space, a colon, or both) and a letter
NamesDirective(body, aliases) ==
  \E i \in 1..Len(body) : \E a \in aliases :
    LET p == i + 1 + Len(a)
        rest == SubSeq(body, p, Len(body))
        seps == {j \in 1..Len(rest) : \A k \in 1..j : IsSpace(rest[k]) \/ rest[k] = ":"}
    IN /\ body[i] = "/"
       /\ i = 1 \/ IsSpace(body[i - 1])
       /\ p - 1 <= Len(body)
       /\ ToLower(SubSeq(body, i + 1, p - 1)) = a
       /\ \E j \in seps :
            /\ Cardinality({k \in 1..j : rest[k] = ":"}) <= 1
            /\ j + 1 <= Len(rest)
            /\ IsLevelChar(rest[j + 1])

ThinkAliases == { <<"t","h","i","n","k","i","n","g">>, <<"t","h","i","n","k">>, <<"t">> }
VerboseAliases == { <<"v","e","r","b","o","s","e">>, <<"v">> }

\* The first parse of the body has been made
Parsed == turns[1].kind = "parse" /\ turns[1].pc \in {"parsed", "done"}

\* C24 as stated: an extractor reports a directive only for a body that holds one of
\* its whole aliases followed by a separator and a level word; a slash-word that only
\* begins with an alias is no directive and stays in the text.
C24_WholeAliasOnly ==
  Parsed =>
    /\ turns[1].first.hasDirective =>
         NamesDirective(turns[1].body,
                        IF turns[1].directive = "think" THEN ThinkAliases
                        ELSE VerboseAliases)
    /\ ~turns[1].first.hasDirective => turns[1].first.cleaned = Trim(turns[1].body)

\* The part of C24 about extractVerboseDirective
C24_VerboseWholeAliasOnly ==
  (Parsed /\ turns[1].directive = "verbose") =>
    /\ turns[1].first.hasDirective => NamesDirective(turns[1].body, VerboseAliases)
    /\ ~turns[1].first.hasDirective => turns[1].first.cleaned = Trim(turns[1].body)

\* The converse for both extractors: a whole alias with a separator and a level word
\* is reported
C24_WholeAliasFound ==
  Parsed =>
    ( NamesDirective(turns[1].body,
                     IF turns[1].directive = "think" THEN ThinkAliases ELSE VerboseAliases)
      => turns[1].first.hasDirective )


-----------------------------------------------------------------------------
(* systemSent and the delivery of the first-turn context.                  *)

\* The record of key says in st that the first-turn context of its session was sent
SentIn(st, key) == key \in DOMAIN st /\ st[key].systemSent

\* The turn t marked the session of key as sent: the record says so at the end of the
\* turn and did not say so, for this session id, when the turn started
MarkedSent(t, key) ==
  /\ SentIn(store, key)
  /\ ~( /\ SentIn(t.startStore, key)
        /\ t.startStore[key].sessionId = store[key].sessionId )

\* The turn t handed a run for the session to the engine and the run did not fail
Delivered(t, sessionId) ==
  /\ t.delegated
  /\ t.reply.kind # "error"
  /\ t.run.sessionId = sessionId

\* C25 as stated: a record has systemSent = true only when the first-turn context of
\* its session id went to the engine in a delegation that did not fail; no ended turn
\* marks a session as sent without delivering it.
C25_SystemSentDelivered ==
  TurnEnded => \A key \in DOMAIN store :
                 MarkedSent(Last, key) => Delivered(Last, store[key].sessionId)

\* The same for the turns whose agent call did not reject
C25_SentWhenReturned ==
  (TurnEnded /\ Last.reply.kind # "error") =>
     \A key \in DOMAIN store :
       MarkedSent(Last, key) => Delivered(Last, store[key].sessionId)

\* The same in the overlapping turns, for a message queued behind the run in flight
C25_QueuedNotMarked ==
  \A s \in Slots :
    (turns[s].kind = "reply" /\ turns[s].pc = "done" /\ turns[s].queued) =>
      ~( /\ SentIn(store, turns[s].sessionKey)
         /\ store[turns[s].sessionKey].sessionId = turns[s].sessionId
         /\ ~SentIn(turns[s].startStore, turns[s].sessionKey) )


-----------------------------------------------------------------------------
(* Aborts: "stop", command-only turns and messages in one chat, a command  *)
(* line for the same chat whose run may be in flight when a message comes  *)
(* (SpecAborts).                                                           *)

MaxAbortTurns == MaxTurns + 1

AbortMessages ==
  { Direct(Owner, B_stop), Direct(Owner, B_hi), Direct(Owner, B_status),
    Direct(Owner, B_think_high) }

AbortCommands == { Command(Owner, B_hi) }

NextAborts ==
  \/ /\ started < MaxAbortTurns
     /\ \E s \in Tasks :
          \/ \E ctx \in AbortMessages : ReplySessionStep(s, ctx, OwnerConfig)
          \/ \E opts \in AbortCommands : CommandSessionStep(s, opts, OwnerConfig)
     /\ UNCHANGED ticks
  \/ \E s \in Tasks : TaskStep(s) /\ UNCHANGED ticks
  \/ Quiet /\ Tick(IdleMs(OwnerConfig) + 1)

SpecAborts == Init /\ [][NextAborts]_vars

\* The turn is a getReplyFromConfig turn that has ended and went on in the session
\* its key had when it started
ContinuedReply(t) ==
  /\ t.kind = "reply"
  /\ t.pc = "done"
  /\ ~t.isNewSession

\* The record of the turn's key said, when the turn started, that the last run was
\* aborted
AbortedAtStart(t) ==
  /\ t.sessionKey \in DOMAIN t.startStore
  /\ t.startStore[t.sessionKey].abortedLastRun

\* The text the turn handed to the engine, to a new run or to the run in flight
HandedText(t) ==
  IF t.queued THEN t.queuedBody
  ELSE IF t.delegated THEN t.run.prompt
  ELSE <<>>

HasHint(text) == \E i \in DOMAIN text : text[i] = AbortedHint[1]

\* The turn answered a command or a directive alone and handed nothing to the engine
CommandOnly(t) ==
  /\ ~t.delegated
  /\ ~t.queued
  /\ t.ctx.Body \in {B_status, B_think_high}

\* C26 as stated: abortedLastRun stays true across command-only turns; a turn of
\* getReplyFromConfig that changes it from true to false hands the engine, through
\* runEmbeddedPiAgent or queueEmbeddedPiMessage, a text with the hint that the
\* previous run was aborted; a turn that starts with the flag false carries no hint.
C26_AbortedHintOnce ==
  \A s \in Tasks :
    ContinuedReply(turns[s]) =>
      /\ (AbortedAtStart(turns[s]) /\ CommandOnly(turns[s]))
           => turns[s].sessionEntry.abortedLastRun
      /\ (AbortedAtStart(turns[s]) /\ ~turns[s].sessionEntry.abortedLastRun)
           => HasHint(HandedText(turns[s]))
      /\ ~AbortedAtStart(turns[s]) => ~HasHint(HandedText(turns[s]))

\* The same without the messages that join a run in flight
C26_HintWhenRun ==
  \A s \in Tasks :
    (ContinuedReply(turns[s]) /\ ~turns[s].queued) =>
      /\ (AbortedAtStart(turns[s]) /\ CommandOnly(turns[s]))
           => turns[s].sessionEntry.abortedLastRun
      /\ (AbortedAtStart(turns[s]) /\ ~turns[s].sessionEntry.abortedLastRun)
           => HasHint(HandedText(turns[s]))
      /\ ~AbortedAtStart(turns[s]) => ~HasHint(HandedText(turns[s]))


\* The part of C26 about a message queued behind the run of a command line: the
\* message that consumes the flag carries the hint
C26_QueuedCarriesHint ==
  \A s \in Tasks : \A o \in Tasks \ {s} :
    ( /\ ContinuedReply(turns[s])
      /\ AbortedAtStart(turns[s])
      /\ turns[s].queued
      /\ turns[o].kind = "command"
      /\ turns[o].pc = "agent"
      /\ ~store[turns[s].sessionKey].abortedLastRun )
    => HasHint(turns[s].queuedBody)


-----------------------------------------------------------------------------
(* Aborts one message after the other, from the owner and from a sender    *)
(* the configuration does not admit (SpecRemembered).                      *)

RememberedMessages ==
  {Direct(Owner, b) : b \in {B_stop, B_hi, B_status}}
    \cup {Direct(Stranger, b) : b \in {B_stop, B_hi}}

RememberedConfigs == {OwnerConfig, NarrowConfig}

NextRemembered ==
  \/ /\ Quiet
     /\ started < MaxAbortTurns
     /\ \E ctx \in RememberedMessages, cfg \in RememberedConfigs :
          ReplySessionStep(NextSlot, ctx, cfg)
     /\ UNCHANGED ticks
  \/ TurnStep(LastSlot) /\ UNCHANGED ticks
  \/ Quiet /\ Tick(IdleMs(NarrowConfig) + 1)

SpecRemembered == Init /\ [][NextRemembered]_vars

\* The turn before the last was an abort keyword for a key without a record, and the
\* last turn is the next message of that key, not a command, arrived within the idle
\* window and ended
AbortThenMessage ==
  /\ Prev.pc = "done"
  /\ Prev.kind = "reply"
  /\ IsAbortBody(Prev.ctx.Body)
  /\ Prev.sessionKey \notin DOMAIN Prev.startStore
  /\ Last.pc = "done"
  /\ Last.kind = "reply"
  /\ Last.sessionKey = Prev.sessionKey
  /\ Last.ctx.Body = B_hi
  /\ Last.startedAt - Prev.startedAt <= IdleMs(Last.cfg)

\* The last turn called the agent with the hint in the prompt
DelegatedWithHint ==
  /\ Last.delegated
  /\ HasHint(Last.run.prompt)

-----------------------------------------------------------------------------
(* ABORT_MEMORY and the record (SpecRemembered).                           *)

\* The turn in slot s is at the abort check or at the hint, and its key has a record
AbortStateDue(s) ==
  /\ turns[s].kind = "reply"
  /\ turns[s].pc \in {"commands", "prompt"}
  /\ turns[s].sessionKey \in DOMAIN store

\* C28: in every turn whose key has a session record, the abort state the turn uses
\* is the record's abortedLastRun (the hint is injected exactly when the record says
\* so), and ABORT_MEMORY is neither read to decide it nor written.
C28_RecordAuthoritative ==
  [][ \A s \in Slots :
        (AbortStateDue(s) /\ turns'[s].pc # turns[s].pc) =>
          /\ abortMemory' = abortMemory
          /\ turns'[s].abortedLastRun = store[turns[s].sessionKey].abortedLastRun
          /\ (turns[s].pc = "prompt" /\ turns'[s].pc = "context") =>
               ( HasHint(turns'[s].prefixedBodyBase)
                 <=> store[turns[s].sessionKey].abortedLastRun )
    ]_vars

\* An abort was taken for a key with a record: the record holds the flag and
\* ABORT_MEMORY holds nothing
C28_AbortInRecord ==
  /\ Last.pc = "done"
  /\ Last.kind = "reply"
  /\ Last.ctx = Direct(Owner, B_stop)
  /\ Last.sessionKey \in DOMAIN Last.startStore
  /\ store[Last.sessionKey].abortedLastRun
  /\ abortMemory = << >>


-----------------------------------------------------------------------------
(* Group activation: messages in one group, one after the other, and a     *)
(* cron job on the session of the group (SpecActivation).                  *)

ActivationKey == resolveSessionKey("per-sender", Group, MainKeyDefault)

ActivationMessages ==
  {InGroup(Owner, b) : b \in {B_always, B_activation, B_hi, B_status}}
    \cup {InGroup(Stranger, B_always)}

ActivationJobs == { Job(ActivationKey, B_hi) }

ActivationConfigs == {OwnerConfig, NarrowConfig}

NextActivation ==
  \/ /\ Quiet
     /\ started < MaxAbortTurns
     /\ \E cfg \in ActivationConfigs :
          \/ \E ctx \in ActivationMessages : ReplySessionStep(NextSlot, ctx, cfg)
          \/ \E job \in ActivationJobs : CronSessionStep(NextSlot, job, cfg)
     /\ UNCHANGED ticks
  \/ TaskStep(LastSlot) /\ UNCHANGED ticks
  \/ Quiet /\ Tick(IdleMs(NarrowConfig) + 1)

SpecActivation == Init /\ [][NextActivation]_vars

\* The reply to an accepted /activation command
ActivationSet(mode) == TextReply(<< <<"Group activation set to", mode>> >>)

\* The record of the turn's key asked for the group intro when the turn started
IntroNeededAtStart(t) ==
  /\ t.sessionKey \in DOMAIN t.startStore
  /\ t.startStore[t.sessionKey].groupActivationNeedsSystemIntro

\* The turn is a group turn that handed the group intro to the agent as extra system
\* prompt, and the agent call returned
IntroInjected(t) ==
  /\ t.kind = "reply"
  /\ t.ctx.ChatType = "group"
  /\ t.delegated
  /\ t.reply.kind # "error"
  /\ t.run.extraSystemPrompt # None

\* The flag of the turn's key in the store
IntroNeeded(t) ==
  /\ t.sessionKey \in DOMAIN store
  /\ store[t.sessionKey].groupActivationNeedsSystemIntro

\* The one-shot flag over the turn t that has ended
OneShot(t) ==
  /\ (t.kind = "reply" /\ \E mode \in {"always", "mention"} : t.reply = ActivationSet(mode))
       => /\ IntroNeeded(t)
          /\ t.reply = ActivationSet(store[t.sessionKey].groupActivation)
  /\ ( /\ Continues(t)
       /\ IntroNeededAtStart(t)
       /\ ~(t.kind = "reply" /\ \E mode \in {"always", "mention"} : t.reply = ActivationSet(mode)) )
       => (IntroNeeded(t) <=> ~IntroInjected(t))

\* C29 as stated: an accepted /activation command sets groupActivationNeedsSystemIntro
\* together with groupActivation; within the session the flag stays true over every
\* turn but a group turn that injects the group intro and whose agent call returns,
\* after which it is false; a turn whose agent call rejects leaves it true.
C29_IntroOneShot == TurnEnded => OneShot(Last)

\* The same over the turns of getReplyFromConfig alone
C29_ReplyIntroOneShot == (TurnEnded /\ Last.kind = "reply") => OneShot(Last)


-----------------------------------------------------------------------------
(* The skills snapshot (SpecTurns).                                        *)

\* buildWorkspaceSkillSnapshot was called in the turn
SnapshotBuilt(t) == "snapshotBuilt" \in DOMAIN t /\ t.snapshotBuilt

\* The record of the turn's key held a snapshot when the turn started
SnapshotStored(t) == t.startStore[t.sessionKey].skillsSnapshot

\* C30 as stated: a turn that continues a fresh session whose record holds a
\* skillsSnapshot does not call buildWorkspaceSkillSnapshot but reuses the stored
\* one, through getReplyFromConfig, agentCommand and runCronIsolatedAgentTurn alike.
C30_SnapshotReused ==
  (TurnEnded /\ Continues(Last) /\ SnapshotStored(Last)) => ~SnapshotBuilt(Last)

\* The same for agentCommand, and for the turns of getReplyFromConfig on a record
\* that has systemSent set
C30_SnapshotReusedAfterFirstTurn ==
  ( /\ TurnEnded
    /\ Continues(Last)
    /\ SnapshotStored(Last)
    /\ \/ Last.kind = "command"
       \/ Last.kind = "reply" /\ Last.startStore[Last.sessionKey].systemSent )
  => ~SnapshotBuilt(Last)

\* The part of C30 about getReplyFromConfig
C30_ReplyAfterCommandReuses ==
  ( /\ TurnEnded
    /\ Last.kind = "reply"
    /\ Continues(Last)
    /\ SnapshotStored(Last) )
  => ~SnapshotBuilt(Last)


-----------------------------------------------------------------------------
(* The model recorded after a run (SpecTurns).                             *)

\* The last turn called the agent, the call returned, and the turn has a record
RunReturned ==
  /\ TurnEnded
  /\ Last.delegated
  /\ Last.reply.kind # "error"
  /\ "runResult" \in DOMAIN Last
  /\ Last.sessionKey \in DOMAIN store

\* The model the engine reported, else the model the turn handed to it
ModelOfRun(t) == IF t.runResult.model # NoText THEN t.runResult.model ELSE t.run.model

\* C31 as stated: after every successful delegation the record's model is the model
\* the engine reported, or, when it reported none, the model resolved for the turn
\* and handed to the engine, through all three entry points.
C31_ModelRecorded == RunReturned => store[Last.sessionKey].model = ModelOfRun(Last)

\* The same for agentCommand and runCronIsolatedAgentTurn
C31_CommandCronModelRecorded ==
  (RunReturned /\ Last.kind \in {"command", "cron"})
    => store[Last.sessionKey].model = ModelOfRun(Last)

\* The same for the turns of getReplyFromConfig whose run used the configured
\* default and returned payloads
C31_ReplyDefaultModelRecorded ==
  ( /\ RunReturned
    /\ Last.kind = "reply"
    /\ Last.run.model = Last.defaultModel
    /\ Len(Last.runResult.payloads) > 0 )
  => store[Last.sessionKey].model = ModelOfRun(Last)


-----------------------------------------------------------------------------
(* What getReplyFromConfig returns after a run: runs with no, one and two  *)
(* payloads, verbose on by the configuration or inline (SpecReturned).     *)

B_verbose_hi == <<"/","v"," ","o","n"," ","h","i">>

VerboseConfig == [OwnerConfig EXCEPT !.verboseDefault = "on", !.idleMinutes = <<1>>]

ReturnedMessages == {Direct(Owner, b) : b \in {B_hi, B_verbose_hi, B_new_hi}}

ReturnedConfigs == {OwnerConfig, VerboseConfig}

\* Runs with two payloads in an order
ListResults ==
  { [payloads |-> << <<"first">>, <<"second">> >>, usage |-> NoUsage, model |-> NoText,
     aborted |-> FALSE],
    [payloads |-> << <<"second">>, <<"first">> >>, usage |-> Usage, model |-> NoText,
     aborted |-> FALSE] }

NextReturned ==
  \/ /\ Quiet
     /\ started < MaxTurns
     /\ \E ctx \in ReturnedMessages, cfg \in ReturnedConfigs : ReplySessionStep(1, ctx, cfg)
     /\ UNCHANGED ticks
  \/ TurnStep(1) /\ UNCHANGED ticks
  \/ (\E result \in ListResults : ReplyAgentReturns(1, result)) /\ UNCHANGED ticks
  \/ Quiet /\ Tick(IdleMs(VerboseConfig) + 1)

SpecReturned == Init /\ [][NextReturned]_vars

\* The turn in slot 1 has ended after its call of the agent returned
Returned ==
  /\ Ended
  /\ turns[1].delegated
  /\ "runResult" \in DOMAIN turns[1]

\* The turn started a session: its key had no record, or the record had another id
StartedSession(t) ==
  \/ t.sessionKey \notin DOMAIN t.startStore
  \/ t.startStore[t.sessionKey].sessionId # t.run.sessionId

\* The banner of a new session
Banner(t) == <<"New session:", t.run.sessionId>>

\* The list the turn has to return: the payloads of the engine in their order, after
\* the banner when verbose is on and the turn started a session
FinalPayloads(t) ==
  IF t.run.verboseLevel = "on" /\ StartedSession(t)
  THEN <<Banner(t)>> \o t.runResult.payloads
  ELSE t.runResult.payloads

\* C32: after a delegation getReplyFromConfig returns no value exactly when the
\* engine returned no payloads; otherwise it returns the engine's payloads in their
\* order, preceded by one "New session" banner exactly when the resolved verbose
\* level is on and the turn started a new session, as a single payload exactly when
\* that list has one element, else as the list.
C32_ReturnShape ==
  Returned =>
    /\ turns[1].returned.shape = "undefined" <=> Len(turns[1].runResult.payloads) = 0
    /\ turns[1].returned.shape = "payload" =>
         /\ Len(FinalPayloads(turns[1])) = 1
         /\ turns[1].returned.value = FinalPayloads(turns[1])[1]
    /\ turns[1].returned.shape = "array" =>
         /\ Len(FinalPayloads(turns[1])) > 1
         /\ turns[1].returned.value = FinalPayloads(turns[1])

\* Two payloads came back to a verbose turn that started a session: the banner and
\* the two payloads were returned as a list
C32_BannerFirst ==
  /\ Returned
  /\ turns[1].ctx.Body = B_verbose_hi
  /\ turns[1].runResult.payloads = << <<"second">>, <<"first">> >>
  /\ turns[1].returned =
       [shape |-> "array",
        value |-> <<Banner(turns[1]), <<"second">>, <<"first">> >>]


-----------------------------------------------------------------------------
(* The status query (commands/status.ts).  The summary is kept in the slot *)
(* of the caller; the sessions are listed without their order, and without *)
(* the context window, which comes from a table outside the store.         *)

GlobalKey == <<"g","l","o","b","a","l">>

\* infra/system-events.peekSystemEvents: the queued lines, which stay queued
peekSystemEvents(queue) == [lines |-> queue, queue |-> queue]

\* buildFlags(entry)
buildFlags(entry) ==
  (IF entry.thinkingLevel # None THEN {<<"think", entry.thinkingLevel>>} ELSE {})
    \cup (IF entry.verboseLevel # None THEN {<<"verbose", entry.verboseLevel>>} ELSE {})
    \cup (IF entry.systemSent THEN {<<"system">>} ELSE {})
    \cup (IF entry.abortedLastRun THEN {<<"aborted">>} ELSE {})
    \cup {<<"id", entry.sessionId>>}

\* One SessionStatus of getStatusSummary
SessionStatusOf(key, entry, clock, configModel) ==
  LET input == Or(entry.inputTokens, 0)
      output == Or(entry.outputTokens, 0)
  IN [ key |-> key,
       sessionId |-> entry.sessionId,
       updatedAt |-> entry.updatedAt,
       age |-> IF entry.updatedAt # 0 THEN clock - entry.updatedAt ELSE -1,
       thinkingLevel |-> entry.thinkingLevel,
       verboseLevel |-> entry.verboseLevel,
       systemSent |-> entry.systemSent,
       abortedLastRun |-> entry.abortedLastRun,
       inputTokens |-> entry.inputTokens,
       outputTokens |-> entry.outputTokens,
       totalTokens |-> Or(entry.totalTokens, input + output),
       model |-> IF entry.model # NoText THEN entry.model ELSE configModel,
       flags |-> buildFlags(entry) ]

\* getStatusSummary that touches the records it lists
getStatusSummaryTouching(cfg, persisted, queue, clock) ==
  LET peeked == peekSystemEvents(queue)
      touched == [k \in DOMAIN persisted |-> [persisted[k] EXCEPT !.updatedAt = clock]]
  IN [ kind |-> "status", pc |-> "done",
       providerSummary |-> buildProviderSummary(cfg),
       queuedSystemEvents |-> peeked.lines,
       count |-> Cardinality(DOMAIN persisted \ {GlobalKey, UnknownKey}),
       sessions |-> {},
       queue |-> peeked.queue,
       sessionStore |-> touched ]

\* getStatusSummary: the provider lines, the queued system events and the sessions
\* of the store; sessionStore and queue are what the call leaves behind
getStatusSummary(cfg, persisted, queue, clock) ==
  LET peeked == peekSystemEvents(queue)
      resolved == resolveConfiguredModelRef(cfg, DEFAULT_PROVIDER, DEFAULT_MODEL)
      sessionStore == loadSessionStore(persisted)
      keys == DOMAIN sessionStore \ {GlobalKey, UnknownKey}
  IN [ kind |-> "status", pc |-> "done",
       providerSummary |-> buildProviderSummary(cfg),
       queuedSystemEvents |-> peeked.lines,
       count |-> Cardinality(keys),
       sessions |-> {SessionStatusOf(k, sessionStore[k], clock, resolved.model) : k \in keys},
       queue |-> peeked.queue,
       sessionStore |-> persisted ]

\* statusCommand(opts, runtime): the summary is computed and printed
StatusStep(s, cfg) ==
  /\ ~Active(s)
  /\ LET Printed(summary) ==
           /\ turns' = [turns EXCEPT ![s] = summary]
           /\ store' = summary.sessionStore
           /\ sysEvents' = summary.queue
     IN Printed(getStatusSummary(cfg, store, sysEvents, now))
  /\ UNCHANGED <<now, nextId, started, restarts, abortMemory, ticks>>

-----------------------------------------------------------------------------
(* Status queries between and during the turns of a chat, with system      *)
(* events queued by the gateway (SpecStatus).                              *)

StatusMessages == {Direct(Owner, b) : b \in {B_hi, B_think_high, B_stop}}

StatusConfigs == {OwnerConfig, SharedConfig}

NextStatus ==
  \/ /\ Quiet
     /\ started < MaxTurns
     /\ \E ctx \in StatusMessages, cfg \in StatusConfigs : ReplySessionStep(1, ctx, cfg)
     /\ UNCHANGED ticks
  \/ TurnStep(1) /\ UNCHANGED ticks
  \/ \E line \in EventLines : EnqueueSystemEvent(line)
  \/ \E cfg \in StatusConfigs : StatusStep(2, cfg)
  \/ Quiet /\ Tick(IdleMs(SharedConfig) + 1)

SpecStatus == Init /\ [][NextStatus]_vars

\* C33: the status query is read-only: the persisted session store after the call
\* equals the store before it, and the queue of pending system events is not consumed.
C33_StatusReadOnly ==
  [][ (turns'[2] # turns[2]) => (store' = store /\ sysEvents' = sysEvents) ]_vars

\* A status query listed a session and a queued event, and both are still there
C33_StatusListed ==
  /\ turns[2].kind = "status"
  /\ turns[2].count > 0
  /\ turns[2].queuedSystemEvents # <<>>
  /\ turns[2].queuedSystemEvents = sysEvents
  /\ \E st \in turns[2].sessions : st.key \in DOMAIN store /\ st.systemSent


-----------------------------------------------------------------------------
(* What a new session inherits (SpecTurns).                                *)

\* The turn found a record of its key that had left the idle window, set nothing of
\* its own (a plain message, command line or job), and has ended with a new session
\* id in the record
RenewedPlain(t) ==
  /\ t.kind \in {"reply", "command", "cron"}
  /\ t.pc = "done"
  /\ "sessionKey" \in DOMAIN t
  /\ t.sessionKey \in DOMAIN t.startStore
  /\ t.startedAt - t.startStore[t.sessionKey].updatedAt > IdleMs(t.cfg)
  /\ t.kind = "reply" => t.ctx.Body = B_hi
  /\ t.kind = "command" => t.opts = Command(Owner, B_hi)
  /\ t.sessionKey \in DOMAIN store
  /\ store[t.sessionKey].sessionId # t.startStore[t.sessionKey].sessionId

\* The record carries no session-scoped state but what the turn t itself set:
\* systemSent by the first-turn write of a message or a job, abortedLastRun by an
\* aborted run of a command line
NothingInherited(t, r) ==
  /\ r.thinkingLevel = None
  /\ r.verboseLevel = None
  /\ r.modelOverride = NoText
  /\ r.providerOverride = NoText
  /\ t.kind = "command" => ~r.systemSent
  /\ r.abortedLastRun =>
       (t.kind = "command" /\ "runResult" \in DOMAIN t /\ t.runResult.aborted)

\* C34 as stated: a turn that starts a new session on a key whose record is stale
\* writes a record that inherits no session-scoped state from the old one, through
\* getReplyFromConfig, agentCommand and runCronIsolatedAgentTurn alike.
C34_NewSessionInheritsNothing ==
  RenewedPlain(Last) => NothingInherited(Last, store[Last.sessionKey])

\* The same for getReplyFromConfig alone
C34_ReplyInheritsNothing ==
  (RenewedPlain(Last) /\ Last.kind = "reply")
    => NothingInherited(Last, store[Last.sessionKey])

\* The part of C34 about agentCommand
C34_CommandInheritsNothing ==
  (RenewedPlain(Last) /\ Last.kind = "command")
    => NothingInherited(Last, store[Last.sessionKey])

\* The part of C34 about runCronIsolatedAgentTurn
C34_CronInheritsNothing ==
  (RenewedPlain(Last) /\ Last.kind = "cron")
    => NothingInherited(Last, store[Last.sessionKey])


-----------------------------------------------------------------------------
(* Session ids and keys (SpecTurns).                                       *)

\* C35 as stated: in every reachable store no two distinct session keys hold records
\* with the same sessionId.
C35_SessionIdUnderOneKey ==
  \A k \in DOMAIN store : Carriers(store, store[k].sessionId) = {k}

\* The same as long as no command line names a session id together with a recipient
C35_UniqueWithoutIdAndTo ==
  (\A s \in Slots : ~(ById(turns[s]) /\ Truthy(turns[s].opts.to)))
    => \A k \in DOMAIN store : Carriers(store, store[k].sessionId) = {k}


-----------------------------------------------------------------------------
(* System events and the main session: two overlapping messages of the     *)
(* shared session while the gateway queues events (SpecEvents).            *)

EventsMessages == { Direct(Owner, B_hi), Direct(Stranger, B_hi) }

NextEvents ==
  \/ /\ started < MaxTurns
     /\ \E s \in Tasks : \E ctx \in EventsMessages : ReplySessionStep(s, ctx, SharedConfig)
     /\ UNCHANGED ticks
  \/ \E s \in Tasks : TaskStep(s) /\ UNCHANGED ticks
  \/ \E line \in EventLines : EnqueueSystemEvent(line)

SpecEvents == Init /\ [][NextEvents]_vars

\* The line occurs in the text
Holds(text, line) ==
  \E i \in 1..Len(text) :
    i + Len(line) - 1 <= Len(text) /\ SubSeq(text, i, i + Len(line) - 1) = line

\* The lines the filter lets pass: not empty, no heartbeat, no periodic reason
Passes(line) == line # <<>> /\ line # <<"heartbeat">> /\ line # <<"reason periodic">>

\* The turn took lines from the queue of system events and handed a text to the engine
DrainedAndHanded(t) ==
  /\ t.kind = "reply"
  /\ "drained" \in DOMAIN t
  /\ t.delegated \/ t.queued

\* C36 as stated: the lines a main-session turn of getReplyFromConfig drains from the
\* queue of system events, but for the filtered ones, are part of the text the turn
\* hands to the engine, through runEmbeddedPiAgent or queueEmbeddedPiMessage.
C36_DrainedEventsHanded ==
  \A s \in Tasks :
    DrainedAndHanded(turns[s]) =>
      \A i \in DOMAIN turns[s].drained :
        Passes(turns[s].drained[i]) => Holds(HandedText(turns[s]), turns[s].drained[i])

\* The same for the turns that call runEmbeddedPiAgent
C36_DrainedEventsInRun ==
  \A s \in Tasks :
    (DrainedAndHanded(turns[s]) /\ turns[s].delegated) =>
      \A i \in DOMAIN turns[s].drained :
        Passes(turns[s].drained[i]) => Holds(turns[s].run.prompt, turns[s].drained[i])


\* ---------------------------------------------------------------------------
\* Input validation of agentCommand

\* The command lines: one that is accepted, and ones with an empty message, no
\* target, a level that is no level, or a timeout
ValidationTimeouts ==
  { <<"1","0">>, <<"0">>, <<"-","5">>, <<"a","b","c">>, <<>>, <<"5","s">>,
    <<"1",".","5">>, <<"0",".","5">> }

ValidationCommands ==
  { Command(Owner, B_hi),
    Command(Owner, B_spaces),
    Command(NoText, B_hi),
    [Command(Owner, B_hi) EXCEPT !.thinking = <<"l","o","u","d">>],
    [Command(Owner, B_hi) EXCEPT !.thinkingOnce = <<"l","o","u","d">>],
    [Command(Owner, B_hi) EXCEPT !.verbose = <<"m","a","y","b","e">>],
    [Command(Owner, B_hi) EXCEPT !.thinking = <<"h","i","g","h">>] }
  \cup { [Command(Owner, B_hi) EXCEPT !.timeout = timeout] : timeout \in ValidationTimeouts }

NextValidation ==
  \/ /\ Quiet
     /\ started < MaxAbortTurns
     /\ \E opts \in ValidationCommands :
          \/ CommandThrowsStep(1, opts, OwnerConfig)
          \/ CommandSessionStep(1, opts, OwnerConfig)
     /\ UNCHANGED ticks
  \/ TaskStep(1) /\ UNCHANGED ticks
  \/ Quiet /\ Tick(IdleMs(OwnerConfig) + 1)

SpecValidation == Init /\ [][NextValidation]_vars

\* The text writes a decimal number: a sign or none, digits, and a fraction or none
IsNumber(text) ==
  LET t == Trim(text)
      u == IF t # <<>> /\ t[1] \in {"+", "-"} THEN Tail(t) ELSE t
      whole == LeadingDigits(u)
      rest == SubSeq(u, Len(whole) + 1, Len(u))
  IN /\ whole # <<>>
     /\ \/ rest = <<>>
        \/ /\ rest[1] = "."
           /\ Len(rest) > 1
           /\ LeadingDigits(Tail(rest)) = Tail(rest)

\* The number the text writes is zero or less
NotPositive(text) ==
  LET t == Trim(text)
  IN /\ IsNumber(text)
     /\ \/ t[1] = "-"
        \/ \A i \in DOMAIN t : t[i] \in {"+", "0", "."}

\* The options the command must reject
MustReject(opts) ==
  \/ Trim(opts.message) = <<>>
  \/ ~Truthy(opts.to) /\ opts.sessionId = 0
  \/ Truthy(opts.thinking) /\ normalizeThinkLevel(opts.thinking) = None
  \/ Truthy(opts.thinkingOnce) /\ normalizeThinkLevel(opts.thinkingOnce) = None
  \/ Truthy(opts.verbose) /\ normalizeVerboseLevel(opts.verbose) = None
  \/ opts.timeout # NoText /\ (~IsNumber(opts.timeout) \/ NotPositive(opts.timeout))

\* The command of the turn was rejected before the agent was called
RejectedEarly(t) ==
  /\ t.pc = "done"
  /\ t.reply = CommandErrored
  /\ ~t.delegated

\* C37: agentCommand rejects an empty message, a call with neither --to nor
\* --session-id, a thinking, one-shot thinking or verbose level that is no level, and
\* a timeout that is no number or not positive; the store is as it was and the agent is
\* not called.
C37_InvalidRejected ==
  [][ ( /\ turns'[1] # turns[1]
        /\ turns'[1].kind = "command"
        /\ MustReject(turns'[1].opts) )
      => (RejectedEarly(turns'[1]) /\ store' = store) ]_vars

\* The part of C37 that leaves out the timeout that is no number
C37_InvalidRejectedButTimeoutText ==
  [][ ( /\ turns'[1] # turns[1]
        /\ turns'[1].kind = "command"
        /\ MustReject(turns'[1].opts)
        /\ (turns'[1].opts.timeout # NoText => IsNumber(turns'[1].opts.timeout)) )
      => (RejectedEarly(turns'[1]) /\ store' = store) ]_vars

\* A command with a timeout that is no number has called the agent and saved its record
C37_TextTimeoutRun ==
  /\ turns[1].kind = "command"
  /\ turns[1].opts.timeout # NoText
  /\ ~IsNumber(turns[1].opts.timeout)
  /\ turns[1].delegated
  /\ turns[1].pc = "done"
  /\ store # turns[1].startStore


\* ---------------------------------------------------------------------------
\* Delivery of the payloads by runCronIsolatedAgentTurn and agentCommand

\* routing.allowFrom = ["*"]: no number to fall back on
AnyoneConfig == [OwnerConfig EXCEPT !.allowFrom = << <<"*">> >>]

DeliveryConfigs == { OwnerConfig, AnyoneConfig }

\* Jobs that deliver or not, with or without a recipient
DeliveryJobs ==
  { [Job(CronKey, B_hi) EXCEPT !.deliver = deliver, !.bestEffortDeliver = bestEffort,
                               !.channel = channel, !.to = to] :
      deliver \in BOOLEAN, bestEffort \in BOOLEAN,
      channel \in {None, "telegram"}, to \in {NoText, Stranger} }

\* Command lines that deliver or not, to a recipient or to a session
DeliveryCommands ==
  { [Command(to, B_hi) EXCEPT !.sessionId = 1, !.deliver = deliver,
                              !.bestEffortDeliver = bestEffort, !.provider = provider] :
      to \in {NoText, Stranger}, deliver \in BOOLEAN, bestEffort \in BOOLEAN,
      provider \in {NoText, D_telegram, D_webchat, <<"s","m","s">>} }

\* What the engine returns: two payloads, one, one without text, or none
DeliveryResults ==
  ListResults \cup Results \cup
  { [payloads |-> << <<>>, <<"reply">> >>, usage |-> NoUsage, model |-> NoText,
     aborted |-> FALSE] }

NextDelivery ==
  \/ /\ Quiet
     /\ started < MaxTurns
     /\ \E job \in DeliveryJobs, cfg \in DeliveryConfigs : CronSessionStep(1, job, cfg)
     /\ UNCHANGED ticks
  \/ /\ Quiet
     /\ started < MaxTurns
     /\ \E opts \in DeliveryCommands, cfg \in DeliveryConfigs :
          CommandSessionStep(1, opts, cfg)
     /\ UNCHANGED ticks
  \/ /\ \/ CommandOverridesStep(1)
        \/ CommandModelStep(1)
        \/ CommandRunStep(1)
        \/ CommandAgentRejects(1)
        \/ CronSystemSentStep(1)
        \/ CronRunStep(1)
        \/ CronAgentRejects(1)
     /\ UNCHANGED ticks
  \/ (\E result \in DeliveryResults : CronAgentReturns(1, result)) /\ UNCHANGED ticks
  \/ (\E result \in DeliveryResults : CommandAgentReturns(1, result)) /\ UNCHANGED ticks

SpecDelivery == Init /\ [][NextDelivery]_vars

\* The cron turn in slot 1 has returned
CronReturned == turns[1].kind = "cron" /\ turns[1].pc = "done"

\* The call of the agent by the turn rejected
AgentRejected(t) == t.delegated /\ "runResult" \notin DOMAIN t

\* The job asked for delivery and no recipient was resolved for it
NoRecipient(t) == t.delivery /\ ~Truthy(t.resolvedDelivery.to)

\* A send of the turn failed
SendFailed(t) == t.failed # {}

\* The failure of delivery that is an error: without bestEffortDeliver, no recipient
\* or a failing send
DeliveryError(t) ==
  /\ t.delivery /\ ~t.bestEffortDeliver
  /\ NoRecipient(t) \/ SendFailed(t)

\* The entry the turn wrote before it called the agent is in the store
PreCallWritesKept(t) ==
  /\ t.sessionKey \in DOMAIN store
  /\ store[t.sessionKey] = t.sessionEntry
  /\ store[t.sessionKey].systemSent

\* C38 as stated: the status is "error" exactly when the agent call rejected or
\* delivery without bestEffortDeliver found no recipient or a failing send, "skipped"
\* exactly when delivery with bestEffortDeliver found no recipient, and "ok" otherwise;
\* a rejection of the agent is a returned status with the earlier store writes kept.
C38_CronStatus ==
  CronReturned =>
    LET t == turns[1]
    IN /\ t.status = "error" <=> (AgentRejected(t) \/ DeliveryError(t))
       /\ t.status = "skipped" <=> (t.bestEffortDeliver /\ NoRecipient(t))
       /\ t.status \in {"error", "skipped", "ok"}
       /\ AgentRejected(t) => PreCallWritesKept(t)

\* C38 amended: "skipped" exactly when the agent call returned and delivery with
\* bestEffortDeliver found no recipient; the rest as stated.
C38_CronStatusAfterRun ==
  CronReturned =>
    LET t == turns[1]
    IN /\ t.status = "error" <=> (AgentRejected(t) \/ DeliveryError(t))
       /\ t.status = "skipped" <=>
            (~AgentRejected(t) /\ t.bestEffortDeliver /\ NoRecipient(t))
       /\ t.status \in {"error", "skipped", "ok"}
       /\ AgentRejected(t) => PreCallWritesKept(t)

\* A cron turn has returned "error" after a send failed with a payload still to send
C38_SendFailedError ==
  /\ CronReturned
  /\ ~AgentRejected(turns[1])
  /\ SendFailed(turns[1])
  /\ Len(turns[1].attempts) < Len(turns[1].runResult.payloads)
  /\ turns[1].status = "error"


\* ---------------------------------------------------------------------------
\* resolveDeliveryTarget over allow-lists, requested recipients and last recipients

TargetAllowLists ==
  { <<Owner>>, <<Owner, Stranger>>, <<W_whatsapp \o Stranger, <<"a","b","c">> >>,
    << <<"a","b","c">>, <<" ","+","1"," ">> >>, <<>>, << <<"*">> >>, <<Owner, <<"*">> >>,
    << <<"a","b","c">> >> }

TargetRecipients ==
  { NoText, <<>>, <<" ">>, Owner, Stranger, Self, <<" ","+","2"," ">>, W_whatsapp \o Stranger,
    <<"2">>, <<"a","b","c">> }

TargetLastRecipients == { NoText, <<>>, Owner, Self, <<"+","2"," ">>, Group }

TargetChannels == { None, "last", "whatsapp", "telegram" }

TargetLastChannels == { None, "whatsapp", "telegram", "webchat" }

\* A store whose main record names the last channel and recipient (written by the
\* provider monitors), or an empty store
TargetStores ==
  { << >> } \cup
  { Put(<< >>, MainKeyDefault,
        [NewEntry(1, 0) EXCEPT !.lastChannel = lastChannel, !.lastTo = lastTo]) :
      lastChannel \in TargetLastChannels, lastTo \in TargetLastRecipients }

InitTarget ==
  /\ \E persisted \in TargetStores : store = persisted
  /\ now = 0
  /\ nextId = 1
  /\ \E allow \in TargetAllowLists, channel \in TargetChannels, to \in TargetRecipients :
       turns = [s \in Slots |->
                 IF s = 1
                 THEN [kind |-> "target", pc |-> "job",
                       cfg |-> [OwnerConfig EXCEPT !.allowFrom = allow],
                       jobPayload |-> [channel |-> channel, to |-> to]]
                 ELSE Idle]
  /\ started = 0
  /\ sysEvents = <<>>
  /\ restarts = 0
  /\ abortMemory = << >>
  /\ ticks = 0

\* resolveDeliveryTarget(cfg, jobPayload)
ResolveTargetStep(s) ==
  /\ turns[s].kind = "target" /\ turns[s].pc = "job"
  /\ turns' = [turns EXCEPT ![s] =
       With(@, [pc |-> "resolved",
                resolvedDelivery |-> resolveDeliveryTarget(@.cfg, @.jobPayload, store)])]
  /\ UNCHANGED <<store, now, nextId, started, sysEvents, restarts, abortMemory, ticks>>

\* The recipient the sends of the delivery are made to, when there is one
SendTargetStep(s) ==
  /\ turns[s].kind = "target" /\ turns[s].pc = "resolved"
  /\ Truthy(turns[s].resolvedDelivery.to)
  /\ turns' = [turns EXCEPT ![s] =
       With(@, [pc |-> "sent",
                sentTo |-> IF @.resolvedDelivery.channel = "whatsapp"
                           THEN normalizeE164(@.resolvedDelivery.to)
                           ELSE @.resolvedDelivery.to])]
  /\ UNCHANGED <<store, now, nextId, started, sysEvents, restarts, abortMemory, ticks>>

NextTarget ==
  \/ ResolveTargetStep(1)
  \/ SendTargetStep(1)

SpecTarget == InitTarget /\ [][NextTarget]_vars

\* The members of a list
Members(list) == {list[i] : i \in DOMAIN list}

\* routing.allowFrom names a number and has no "*" entry
Restricting(cfg) ==
  /\ <<"*">> \notin Members(cfg.allowFrom)
  /\ \E e \in Members(cfg.allowFrom) : Len(normalizeE164(e)) > 1

\* The number the job asks for, else the one last used by the main session, else none
Wanted(t) ==
  IF t.jobPayload.to # NoText /\ Trim(t.jobPayload.to) # <<>> THEN Trim(t.jobPayload.to)
  ELSE IF MainKeyDefault \in DOMAIN store /\ Truthy(store[MainKeyDefault].lastTo)
          /\ Trim(store[MainKeyDefault].lastTo) # <<>>
       THEN Trim(store[MainKeyDefault].lastTo)
  ELSE NoText

\* The target resolved for WhatsApp under a restricting allow-list
RestrictedTarget ==
  /\ turns[1].kind = "target" /\ turns[1].pc \in {"resolved", "sent"}
  /\ turns[1].resolvedDelivery.channel = "whatsapp"
  /\ Restricting(turns[1].cfg)

\* C39: when routing.allowFrom names a number and has no "*" entry, the WhatsApp
\* recipient resolveDeliveryTarget resolves, and the number the sends go to, is a member
\* of the normalized allow-list: the requested or last-used number when it is a member,
\* else the first entry of the list.
C39_TargetInAllowList ==
  RestrictedTarget =>
    LET t == turns[1]
        allowed == NormalizedAllowFrom(t.cfg)
        wanted == Wanted(t)
    IN /\ t.resolvedDelivery.to \in Members(allowed)
       /\ t.resolvedDelivery.to =
            IF wanted # NoText /\ normalizeE164(wanted) \in Members(allowed)
            THEN normalizeE164(wanted) ELSE allowed[1]
       /\ t.pc = "sent" => t.sentTo \in Members(allowed)

\* A job asked for a number outside the allow-list and the send goes to the first entry
C39_OutsiderReplaced ==
  /\ RestrictedTarget
  /\ turns[1].pc = "sent"
  /\ Wanted(turns[1]) # NoText
  /\ normalizeE164(Wanted(turns[1])) \notin Members(NormalizedAllowFrom(turns[1].cfg))
  /\ turns[1].sentTo = NormalizedAllowFrom(turns[1].cfg)[1]


\* ---------------------------------------------------------------------------
\* Delivery failures of agentCommand

\* The command in slot 1 was asked to deliver and has ended after the agent returned
CommandDelivered ==
  /\ turns[1].kind = "command" /\ turns[1].pc = "done"
  /\ turns[1].delegated
  /\ "runResult" \in DOMAIN turns[1]
  /\ turns[1].opts.deliver

\* The provider the command delivers through
ProviderOf(t) == IF t.opts.provider # NoText THEN ToLower(t.opts.provider) ELSE D_whatsapp

\* The command has no target for its provider: no --to, and for WhatsApp no number in
\* routing.allowFrom either
NoTarget(t) ==
  /\ ProviderOf(t) \in {D_whatsapp, D_telegram}
  /\ ~Truthy(t.opts.to) \/ (ProviderOf(t) = D_telegram /\ Trim(t.opts.to) = <<>>)
  /\ ProviderOf(t) = D_whatsapp => NormalizedAllowFrom(t.cfg) = <<>>

\* The provider is one the command cannot deliver through
BadProvider(t) == ProviderOf(t) \notin {D_whatsapp, D_telegram}

\* The texts of the payloads that have one
WithText(payloads) == SelectSeq(payloads, LAMBDA text : text # <<>>)

\* The update of the record made after the run is in the store
UsageUpdatePersisted(t) ==
  /\ t.sessionKey \in DOMAIN store
  /\ store[t.sessionKey] = t.sessionStore[t.sessionKey]
  /\ store[t.sessionKey].sessionId = t.sessionId
  /\ store[t.sessionKey].model =
       (IF t.runResult.model # NoText THEN t.runResult.model ELSE t.model)
  /\ store[t.sessionKey].abortedLastRun = t.runResult.aborted
  /\ t.runResult.usage # NoUsage =>
       store[t.sessionKey].inputTokens = Or(t.runResult.usage.input, 0)

\* C40: with bestEffortDeliver a missing target, a provider that cannot deliver, or a
\* failing send does not make agentCommand reject: the error is logged and every
\* payload with text is still sent in order; without it the first such failure
\* rejects; either way the record of the key already holds the update made after the
\* run.
C40_DeliveryFailures ==
  CommandDelivered =>
    LET t == turns[1]
        failure == NoTarget(t) \/ BadProvider(t) \/ t.failed # {}
    IN /\ t.opts.bestEffortDeliver =>
            /\ ~t.rejected /\ t.reply # CommandErrored
            /\ failure => t.logged > 0
            /\ ~(NoTarget(t) \/ BadProvider(t)) =>
                 [i \in DOMAIN t.attempts |-> t.attempts[i].text]
                   = WithText(t.runResult.payloads)
       /\ ~t.opts.bestEffortDeliver =>
            /\ t.rejected <=> failure
            /\ t.rejected => t.reply = CommandErrored
            /\ t.failed \subseteq {Len(t.attempts)}
            /\ (NoTarget(t) \/ BadProvider(t)) => t.attempts = <<>>
       /\ HasKey(t) => UsageUpdatePersisted(t)

\* With bestEffortDeliver the first of two sends failed, the second was made, and the
\* command returned with the record updated
C40_SecondSentAfterFailure ==
  /\ CommandDelivered
  /\ turns[1].opts.bestEffortDeliver
  /\ turns[1].failed = {1}
  /\ Len(turns[1].attempts) = Len(turns[1].runResult.payloads)
  /\ Len(turns[1].attempts) > 1
  /\ ~turns[1].rejected
  /\ HasKey(turns[1]) /\ UsageUpdatePersisted(turns[1])

\* Without bestEffortDeliver a send failed and the command rejected with the record
\* updated
C40_RejectedAfterUpdate ==
  /\ CommandDelivered
  /\ ~turns[1].opts.bestEffortDeliver
  /\ turns[1].failed # {}
  /\ turns[1].rejected
  /\ HasKey(turns[1]) /\ UsageUpdatePersisted(turns[1])

=============================================================================
